---- MODULE Spec2Model ----
(***************************************************************************)
(* A model of the Sparse Image Format library (sif-io.c / sif-io.h).       *)
(*                                                                         *)
(* One sif_file handle at a time works on one file on disk.  The handle is *)
(* the record `file` (the fields of struct sif_file, the header nested as  *)
(* file.hd); the file on disk is the record `disk`: the header as the      *)
(* 4-byte big-endian fields written by _sif_write_header, the tile header  *)
(* table as written by _sif_write_tile_header(s), and `tail`, the bytes    *)
(* from base_location on (data blocks, then the meta-data region).         *)
(*                                                                         *)
(* Internal functions of the library are operators from a "world" record   *)
(* [f |-> handle, d |-> disk, ub |-> BOOLEAN] to a world record; w.ub      *)
(* records that the call performed an out-of-bounds store.  The public     *)
(* functions are the actions.                                              *)
(*                                                                         *)
(* Bytes are the integers 0..255; buffers are 1-based sequences of bytes,  *)
(* so C's buffer[i] is buf[i + 1].  Arrays indexed by tile or block number *)
(* are functions on 0 .. n_tiles - 1.                                      *)
(***************************************************************************)
EXTENDS Integers, Sequences, FiniteSets, TLC

VARIABLES
  long_bits,    \* the width of C's `long` in this build: 32 (ILP32, WIN32) or 64 (LP64)
  native_endian,\* SIF_SIMPLE_NATIVE_ENDIAN of this build: the host's byte order
  handle,       \* "none" | "open" | "freed" | "crashed": what the caller holds
  file,         \* struct sif_file of the open handle
  disk,         \* the file on disk
  last_op,      \* history: the last public call made, with what it returned
  ops,          \* history: number of public calls made so far
  error_free    \* history: no call so far has failed or left the error field set

vars == <<long_bits, native_endian, handle, file, disk, last_op, ops, error_free>>

----------------------------------------------------------------------------
(* Bounds of the model. *)

\* public calls made on the file before the model stops
MaxOps == 4
\* input bytes (pixel bytes) range over 0 .. MaxByte
MaxByte == 1
\* the largest file the environment lets the library write (bytes after
\* base_location): a write ending beyond it fails (EFBIG)
MaxTail == 40
\* the setters of the user data type are tried among the first MaxAttrOps
\* calls
MaxAttrOps == 2
\* public calls made through the simple interface before the model stops
MaxSimpleOps == 4

\* the internal functions are called once each on arguments of these sizes:
\* tiles of up to MaxTileSide units a side, units of up to MaxUnitSize bytes,
\* buffers of up to MaxElems elements
MaxInternalOps == 1
MaxTileSide == 2
MaxUnitSize == 3
MaxElems == 2

(* Program constants. *)
SIF_VERSION == 2
SIF_HASH_TABLE_SIZE == 128
SIF_MAGIC_NUMBER_SIZE == 8
SIF_ERROR_NONE == 0
SIF_ERROR_MEM == 1
SIF_ERROR_INVALID_TN == 5
SIF_ERROR_READ == 6
SIF_ERROR_WRITE == 7
SIF_ERROR_INVALID_FILE_MODE == 10
SIF_ERROR_INCOMPATIBLE_VERSION == 11
SIF_ERROR_META_DATA_KEY == 12
SIF_ERROR_META_DATA_VALUE == 13
SIF_ERROR_CANNOT_WRITE_VERSION == 14
SIF_ERROR_INVALID_BAND == 15
SIF_ERROR_INVALID_COORD == 16
SIF_ERROR_INVALID_REGION_SIZE == 18
SIF_ERROR_INVALID_BUFFER == 19
SIF_SIMPLE_ERROR_UNDEFINED_DT == 100
SIF_SIMPLE_ERROR_UNDEFINED_ENDIAN == 102
SIF_SIMPLE_LITTLE_ENDIAN == 0
SIF_SIMPLE_BIG_ENDIAN == 1

\* "!**SIF**"
SIF_MAGIC_NUMBER == <<33, 42, 42, 83, 73, 70, 42, 42>>

----------------------------------------------------------------------------
(* Arithmetic and byte helpers. *)

MIN(x, y) == IF x < y THEN x ELSE y
MAX(x, y) == IF x > y THEN x ELSE y
CEIL_DIV(x, y) == IF x % y = 0 THEN x \div y ELSE (x \div y) + 1

Pow2(n) == 2 ^ n

Zeros(n) == [i \in 1..n |-> 0]

\* n copies of the sequence u, concatenated
RECURSIVE Repeat(_, _)
Repeat(u, n) == IF n <= 0 THEN <<>> ELSE u \o Repeat(u, n - 1)

\* bit k (0 = least significant) of byte a
BitOf(a, k) == (a \div Pow2(k)) % 2

\* a | b on bytes
ByteOr(a, b) ==
  LET bit(k) == IF BitOf(a, k) = 1 \/ BitOf(b, k) = 1 THEN Pow2(k) ELSE 0
  IN bit(0) + bit(1) + bit(2) + bit(3) + bit(4) + bit(5) + bit(6) + bit(7)

\* a & ~b on bytes
ByteAndNot(a, b) ==
  LET bit(k) == IF BitOf(a, k) = 1 /\ BitOf(b, k) = 0 THEN Pow2(k) ELSE 0
  IN bit(0) + bit(1) + bit(2) + bit(3) + bit(4) + bit(5) + bit(6) + bit(7)

\* SIF_GET_BIT(uca, i): bit i of the flag array, most significant bit first
SIF_GET_BIT(uca, i) == BitOf(uca[(i \div 8) + 1], 7 - (i % 8))
SIF_SET_BIT(uca, i) ==
  [uca EXCEPT ![(i \div 8) + 1] = ByteOr(@, Pow2(7 - (i % 8)))]
SIF_CLEAR_BIT(uca, i) ==
  [uca EXCEPT ![(i \div 8) + 1] = ByteAndNot(@, Pow2(7 - (i % 8)))]

\* _sif_int32_to_packed_bytes: (val >> 24) & 0xFF, ... of a two's complement long
Int32ToPackedBytes(val) ==
  << (val \div 16777216) % 256, (val \div 65536) % 256,
     (val \div 256) % 256, val % 256 >>

\* _sif_packed_bytes_to_int32: ((long)ptr[0] << 24) | ... | (long)ptr[3].
\* The long is given as its low 32 bits read as a signed word (lo) and what
\* it holds above them (hi): the long is hi * 2^32 + lo.  A 32-bit long is the
\* signed word; a 64-bit long is the unsigned value of the four bytes, so a
\* word with the top bit set yields hi = 1.
PackedBytesToInt32(p, bits) ==
  [lo |-> (IF p[1] >= 128 THEN p[1] - 256 ELSE p[1]) * 16777216
            + p[2] * 65536 + p[3] * 256 + p[4],
   hi |-> IF bits = 64 /\ p[1] >= 128 THEN 1 ELSE 0]

----------------------------------------------------------------------------
(* The file's bytes from base_location on. *)

\* fread of n bytes at offset pos: the bytes that exist there (fewer than n at EOF)
ReadAt(tail, pos, n) ==
  IF pos >= Len(tail) \/ n <= 0 THEN <<>>
  ELSE SubSeq(tail, pos + 1, MIN(pos + n, Len(tail)))

\* fseek to pos and fwrite of bytes: a gap after the old end reads as zeros
WriteAt(tail, pos, bytes) ==
  LET n == MAX(Len(tail), pos + Len(bytes))
  IN IF bytes = <<>> THEN tail
     ELSE [i \in 1..n |->
             IF i > pos /\ i <= pos + Len(bytes) THEN bytes[i - pos]
             ELSE IF i <= Len(tail) THEN tail[i] ELSE 0]

\* ftruncate(fd, pos): cut, or extend with zeros
TruncateAt(tail, pos) ==
  [i \in 1..pos |-> IF i <= Len(tail) THEN tail[i] ELSE 0]

----------------------------------------------------------------------------
(* Geometry and tile records. *)

\* data unit j (0-based) of a buffer of units of dus bytes
UnitAt(buf, j, dus) == SubSeq(buf, j * dus + 1, (j + 1) * dus)

\* buf with the n bytes of src written at byte offset off (memcpy)
PutBytes(buf, off, src) ==
  [i \in 1..Len(buf) |->
     IF i > off /\ i <= off + Len(src) THEN src[i - off] ELSE buf[i]]

SliceBytes(f) == f.units_per_slice * f.hd.data_unit_size

\* a variant of the tile records with every flag clear, which
\* C13_FreshFileIsZero tells from the code's
AllocTileHeadersUnflagged(hd) ==
  [i \in 0..(hd.n_tiles - 1) |->
     [uniform_flags |-> [j \in 1..CEIL_DIV(hd.bands, 8) |-> 0],
      uniform_pixel_values |-> Zeros(hd.bands * hd.data_unit_size),
      block_num |-> -1, block_num_hi |-> 0]]

\* the tile records _sif_alloc_tile_headers builds: every band uniform, every
\* uniform pixel value zero, no block
AllocTileHeaders(hd) ==
  [i \in 0..(hd.n_tiles - 1) |->
     [uniform_flags |-> [j \in 1..CEIL_DIV(hd.bands, 8) |-> 255],
      uniform_pixel_values |-> Zeros(hd.bands * hd.data_unit_size),
      block_num |-> -1, block_num_hi |-> 0]]

\* tile->block_num == -1, block_num being the low word of the long and
\* block_num_hi what the long holds above 32 bits
NoBlock(t) == t.block_num = -1 /\ t.block_num_hi = 0

\* the tile's block_num is an index into blocks_to_tiles
BlockIndexOk(f, t) == t.block_num_hi = 0 /\ t.block_num \in DOMAIN f.blocks_to_tiles

\* _sif_completely_uniform_shallow, its store: the last flag byte is or-ed
\* with 0xFF >> (8 - bands % 8)
CompletelyUniformFlags(hd, flags) ==
  [flags EXCEPT ![hd.n_uniform_flags] =
     ByteOr(255 \div Pow2(8 - (hd.bands % 8)), @)]

\* _sif_completely_uniform_shallow, its result: every flag byte is 0xFF
CompletelyUniformShallow(hd, flags) ==
  \A j \in 1..hd.n_uniform_flags : CompletelyUniformFlags(hd, flags)[j] = 255

\* _sif_band_of_tile_is_uniform_shallow
BandOfTileIsUniformShallow(f, i, b) == SIF_GET_BIT(f.tiles[i].uniform_flags, b) = 1

\* _sif_get_block_location, as an offset from base_location
BlockLocation(f, block_num) == f.hd.tile_bytes * block_num

\* _sif_get_last_used_block_index
LastUsedBlockIndex(f) ==
  LET used == {i \in 0..(f.hd.n_tiles - 1) : f.blocks_to_tiles[i] # -1}
  IN IF used = {} THEN -1 ELSE CHOOSE i \in used : \A k \in used : k <= i

\* a variant of _sif_is_uniform that compares every unit of the rows, the
\* units beyond extentX too, which C33_UniformTestOfExtent tells from the
\* code's
IsUniformOfRows(hd, data, extentX, extentY) ==
  \A j \in 0..(extentY * hd.tile_width - 1) :
     UnitAt(data, j, hd.data_unit_size) = UnitAt(data, 0, hd.data_unit_size)

\* _sif_is_uniform: the loops run over the rows i = 0, tile_width, ... below
\* num_units = extentY * tile_width and the units j = i .. i + extentX - 1 of
\* each; a unit is compared with the first as one byte, as two bytes, or by
\* memcmp of data_unit_size bytes
IsUniform(hd, data, extentX, extentY) ==
  \A i \in {r * hd.tile_width : r \in 0..(extentY - 1)} :
     \A j \in i..(i + extentX - 1) :
        IF hd.data_unit_size = 1 THEN data[1] = data[j + 1]
        ELSE IF hd.data_unit_size = 2
          THEN data[1] = data[j * 2 + 1] /\ data[2] = data[j * 2 + 2]
        ELSE SubSeq(data, 1, hd.data_unit_size)
               = SubSeq(data, hd.data_unit_size * j + 1,
                        hd.data_unit_size * j + hd.data_unit_size)

SetErr(w, code) == [w EXCEPT !.f.error = code]

\* a variant of the entry check that also refuses a handle whose error field
\* is set, which C6_ErrorFieldNotChecked tells from the check the code makes
CheckFileFailsOrError(f) == f.hd.version > SIF_VERSION \/ f.error # SIF_ERROR_NONE

\* SIF_CHECK_FILE / SIF_CHECK_FILE_V: the handle is refused when its header
\* version is newer than the library's (the error field is not looked at)
CheckFileFails(f) == f.hd.version > SIF_VERSION

\* a variant of _sif_write_tile_header that leaves the file as it is, which
\* C28_TileHeadersWrittenThrough tells from the code's
WriteTileHeaderNowhere(w, tile_num) == w

\* _sif_write_tile_header: the record of one tile, written through
WriteTileHeader(w, tile_num) ==
  [w EXCEPT !.d.tiles[tile_num] =
     [uniform_pixel_values |-> w.f.tiles[tile_num].uniform_pixel_values,
      uniform_flags |-> w.f.tiles[tile_num].uniform_flags,
      block_num |-> Int32ToPackedBytes(w.f.tiles[tile_num].block_num)]]

\* _sif_write_tile_headers: the whole table
WriteTileHeaders(w) ==
  [w EXCEPT !.d.tiles =
     [i \in 0..(w.f.hd.n_tiles - 1) |->
        [uniform_pixel_values |-> w.f.tiles[i].uniform_pixel_values,
         uniform_flags |-> w.f.tiles[i].uniform_flags,
         block_num |-> Int32ToPackedBytes(w.f.tiles[i].block_num)]]]

\* the header's 32-bit fields in the order _sif_write_header writes them
HeaderIntFields ==
  {"width", "height", "bands", "n_keys", "n_tiles", "tile_width", "tile_height",
   "tile_bytes", "n_tiles_across", "data_unit_size", "user_data_type",
   "defragment", "consolidate", "intrinsic_write", "tile_header_bytes",
   "n_uniform_flags"}

\* the byte count _sif_write_header accumulates: header_bytes, the magic
\* number, the version, 16 integers and six 8-byte doubles
HeaderByteCount == 4 + SIF_MAGIC_NUMBER_SIZE + 4 + 4 * Cardinality(HeaderIntFields) + 6 * 8

\* _sif_write_header: also sets hd->version and file->header_bytes
WriteHeader(w) ==
  LET f == w.f
  IN [w EXCEPT
        !.d.hdr = [header_bytes |-> Int32ToPackedBytes(HeaderByteCount),
                   magic_number |-> f.hd.magic_number,
                   version |-> Int32ToPackedBytes(f.use_file_version),
                   ints |-> [n \in HeaderIntFields |-> Int32ToPackedBytes(f.hd[n])]],
        !.f.hd.version = f.use_file_version,
        !.f.header_bytes = HeaderByteCount]

----------------------------------------------------------------------------
(* Tile slice I/O. *)

\* fwrite can store n bytes at offset pos of the data region: the file system
\* holds MaxTail bytes after the tile headers
CanWrite(pos, n) == pos >= 0 /\ pos + n <= MaxTail

\* a variant of the store below that gives the block back only when every
\* flag was set before the call, which C21_UniformWriteIdempotent tells from
\* the code's
MarkSliceUniformLate(w, tile_num, band, value) ==
  LET hd == w.f.hd
      t == w.f.tiles[tile_num]
      upv == PutBytes(t.uniform_pixel_values, hd.data_unit_size * band,
                      SubSeq(value, 1, hd.data_unit_size))
      fl == CompletelyUniformFlags(hd, SIF_SET_BIT(t.uniform_flags, band))
      release == (\A j \in 1..hd.n_uniform_flags : t.uniform_flags[j] = 255)
                   /\ BlockIndexOk(w.f, t)
  IN [w EXCEPT
        !.f.tiles[tile_num] =
           [uniform_flags |-> fl, uniform_pixel_values |-> upv,
            block_num |-> IF release THEN -1 ELSE t.block_num,
            block_num_hi |-> t.block_num_hi],
        !.f.blocks_to_tiles = IF release THEN [@ EXCEPT ![t.block_num] = -1] ELSE @]

\* The store made wherever a slice is found or declared uniform
\* (sif_fill_tile_slice, sif_fill_tiles, sif_set_tile_slice, each inline):
\* the value goes to the tile header, the band's flag is set and, if
\* _sif_completely_uniform_shallow then answers true and the tile has a block,
\* the block is released.
MarkSliceUniform(w, tile_num, band, value) ==
  LET hd == w.f.hd
      t == w.f.tiles[tile_num]
      upv == PutBytes(t.uniform_pixel_values, hd.data_unit_size * band,
                      SubSeq(value, 1, hd.data_unit_size))
      fl == CompletelyUniformFlags(hd, SIF_SET_BIT(t.uniform_flags, band))
      release == (\A j \in 1..hd.n_uniform_flags : fl[j] = 255) /\ ~NoBlock(t)
      oob == release /\ ~BlockIndexOk(w.f, t)
  IN [w EXCEPT
        !.f.tiles[tile_num] =
           [uniform_flags |-> fl, uniform_pixel_values |-> upv,
            block_num |-> IF release THEN -1 ELSE t.block_num,
            block_num_hi |-> IF release THEN 0 ELSE t.block_num_hi],
        !.f.blocks_to_tiles =
           IF release /\ ~oob THEN [@ EXCEPT ![t.block_num] = -1] ELSE @,
        !.ub = @ \/ oob]

\* a variant of sif_get_tile_slice that reads the block of a tile that has
\* one whatever the band's flag says, which C25_TileSliceRoundTrip tells from
\* the code's
SifGetTileSliceOfBlock(w, buffer, tx, ty, band) ==
  LET f == w.f
      tile_num == (f.hd.n_tiles_across * ty) + tx
  IN IF tx < 0 \/ ty < 0 \/ tx >= f.hd.n_tiles_across \/ band < 0 \/ band >= f.hd.bands
          \/ tile_num \notin DOMAIN f.tiles
       THEN [w |-> w, buf |-> buffer]
     ELSE IF BlockIndexOk(f, f.tiles[tile_num])
       THEN [w |-> w,
             buf |-> [i \in 1..SliceBytes(f) |->
                        IF BlockLocation(f, f.tiles[tile_num].block_num)
                             + SliceBytes(f) * band + i <= Len(w.d.tail)
                          THEN w.d.tail[BlockLocation(f, f.tiles[tile_num].block_num)
                                          + SliceBytes(f) * band + i]
                          ELSE 0]]
     ELSE [w |-> w,
           buf |-> Repeat(UnitAt(f.tiles[tile_num].uniform_pixel_values, band,
                                 f.hd.data_unit_size), f.units_per_slice)]

\* sif_get_tile_slice: the world after the call and the caller's buffer
SifGetTileSlice(w, buffer, tx, ty, band) ==
  LET f == w.f
      hd == f.hd
      tile_num == (hd.n_tiles_across * ty) + tx
  IN IF CheckFileFails(f)
       THEN [w |-> SetErr(w, SIF_ERROR_INCOMPATIBLE_VERSION), buf |-> buffer]
     ELSE IF tx < 0 \/ ty < 0 \/ tx >= hd.n_tiles_across
       THEN [w |-> SetErr(w, SIF_ERROR_INVALID_TN), buf |-> buffer]
     ELSE IF band < 0 \/ band >= hd.bands
       THEN [w |-> SetErr(w, SIF_ERROR_INVALID_BAND), buf |-> buffer]
     ELSE IF tile_num \notin DOMAIN f.tiles
       THEN [w |-> [w EXCEPT !.ub = TRUE], buf |-> buffer]
     ELSE IF BandOfTileIsUniformShallow(f, tile_num, band)
       THEN [w |-> w,
             buf |-> Repeat(UnitAt(f.tiles[tile_num].uniform_pixel_values, band,
                                   hd.data_unit_size), f.units_per_slice)]
     ELSE LET t == f.tiles[tile_num]
              pos == BlockLocation(f, t.block_num) + SliceBytes(f) * band
              got == IF t.block_num_hi # 0 THEN <<>>
                     ELSE ReadAt(w.d.tail, pos, SliceBytes(f))
          IN IF t.block_num_hi = 0 /\ t.block_num < 0
               THEN [w |-> [w EXCEPT !.ub = TRUE], buf |-> Zeros(SliceBytes(f))]
             ELSE IF Len(got) \div hd.data_unit_size # f.units_per_slice
               THEN [w |-> SetErr(w, SIF_ERROR_READ),
                     buf |-> got \o Zeros(SliceBytes(f) - Len(got))]
               ELSE [w |-> w, buf |-> got]

\* a variant of sif_is_slice_shallow_uniform that marks the tile dirty, which
\* C17_ReadsLeaveState tells from the code's
SifIsSliceShallowUniformMarking(w, tx, ty, band, uniform_value) ==
  LET tile_num == (w.f.hd.n_tiles_across * ty) + tx
  IN IF tile_num \in DOMAIN w.f.tiles
       THEN [w |-> [w EXCEPT !.f.dirty_tiles[tile_num] = 1], ret |-> 0,
             value |-> uniform_value]
       ELSE [w |-> w, ret |-> 0, value |-> uniform_value]

\* sif_is_slice_shallow_uniform: the world after the call, the value returned
\* and what *uniform_value holds.  Neither the tile position nor the band is
\* checked: outside the tile table or the bands the flag is read from
\* memory that belongs to something else.
SifIsSliceShallowUniform(w, tx, ty, band, uniform_value) ==
  LET f == w.f
      hd == f.hd
      tile_num == (hd.n_tiles_across * ty) + tx
  IN IF CheckFileFails(f)
       THEN [w |-> SetErr(w, SIF_ERROR_INCOMPATIBLE_VERSION), ret |-> 0,
             value |-> uniform_value]
     ELSE IF tile_num \notin DOMAIN f.tiles \/ band < 0 \/ band >= hd.bands
       THEN [w |-> [w EXCEPT !.ub = TRUE], ret |-> 0, value |-> uniform_value]
     ELSE IF BandOfTileIsUniformShallow(f, tile_num, band)
       THEN [w |-> w, ret |-> 1,
             value |-> UnitAt(f.tiles[tile_num].uniform_pixel_values, band,
                              hd.data_unit_size)]
     ELSE [w |-> w, ret |-> 0, value |-> uniform_value]

\* the loop of sif_is_shallow_uniform from the k-th tile of the window on
\* (columns of tiles outermost): it stops at the first slice that is not
\* uniform or whose value differs from upv, the value of the first tile
RECURSIVE IsShallowUniformFrom(_, _, _, _, _, _, _, _)
IsShallowUniformFrom(wd, sx, sy, ex, ey, band, r, k) ==
  IF k >= (ex - sx + 1) * (ey - sy + 1) \/ r.ret = 0 \/ r.w.ub THEN r
  ELSE LET first == wd.f.tiles[(wd.f.hd.n_tiles_across * sy) + sx]
           upv == UnitAt(first.uniform_pixel_values, band, wd.f.hd.data_unit_size)
           got == SifIsSliceShallowUniform(wd, sx + (k \div (ey - sy + 1)),
                                           sy + (k % (ey - sy + 1)), band, r.value)
       IN IsShallowUniformFrom(wd, sx, sy, ex, ey, band,
            [got EXCEPT !.ret = IF got.ret = 1 /\ got.value = upv THEN 1 ELSE 0],
            k + 1)

\* a variant of sif_is_shallow_uniform that looks at the first tile of the
\* window only, which C22_ShallowUniformOfWindow tells from the code's
SifIsShallowUniformOfFirst(wd, x, y, w, h, band, uniform_value) ==
  SifIsSliceShallowUniform(wd, x \div wd.f.hd.tile_width, y \div wd.f.hd.tile_height,
                           band, uniform_value)

\* sif_is_shallow_uniform of the window (x, y, w, h): the window is not
\* checked against the image
SifIsShallowUniform(wd, x, y, w, h, band, uniform_value) ==
  LET hd == wd.f.hd
      sx == x \div hd.tile_width
      sy == y \div hd.tile_height
      ex == (x + w - 1) \div hd.tile_width
      ey == (y + h - 1) \div hd.tile_height
  IN IF CheckFileFails(wd.f)
       THEN [w |-> SetErr(wd, SIF_ERROR_INCOMPATIBLE_VERSION), ret |-> 0,
             value |-> uniform_value]
     ELSE IF (hd.n_tiles_across * sy) + sx \notin DOMAIN wd.f.tiles
               \/ band < 0 \/ band >= hd.bands
       THEN [w |-> [wd EXCEPT !.ub = TRUE], ret |-> 0, value |-> uniform_value]
     ELSE IsShallowUniformFrom(wd, sx, sy, ex, ey, band,
            [w |-> wd, ret |-> 1, value |-> uniform_value], 0)

\* a variant of the search that takes the last free block, which
\* C27_FirstFitAllocation tells from the code's
LastFreeBlock(f) ==
  LET free == {i \in 0..(f.hd.n_tiles - 1) : f.blocks_to_tiles[i] = -1}
  IN IF free = {} THEN 0 ELSE CHOOSE i \in free : \A k \in free : i >= k

\* the first free block, as the loop of sif_set_tile_slice finds it (0 if none)
FirstFreeBlock(f) ==
  LET free == {i \in 0..(f.hd.n_tiles - 1) : f.blocks_to_tiles[i] = -1}
  IN IF free = {} THEN 0 ELSE CHOOSE i \in free : \A k \in free : i <= k

\* sif_set_tile_slice, from the point where the slice is not stored as uniform:
\* a tile without a block gets the first free one, filled with `bands` copies
\* of the buffer; then the slice is written, the band's flag cleared and the
\* tile header written through.
StoreSliceInBlock(w, buffer, tile_num, band) ==
  LET f == w.f
      hd == f.hd
      alloc == NoBlock(f.tiles[tile_num])
      far == f.tiles[tile_num].block_num_hi # 0
      bn == IF alloc THEN FirstFreeBlock(f) ELSE f.tiles[tile_num].block_num
      w1 == IF alloc
              THEN [w EXCEPT !.f.tiles[tile_num].block_num = bn,
                             !.f.blocks_to_tiles[bn] = tile_num]
              ELSE w
      loc1 == BlockLocation(f, bn)
      fillok == ~alloc \/ CanWrite(loc1, hd.tile_bytes)
      w2 == IF alloc /\ fillok
              THEN [w1 EXCEPT !.d.tail = WriteAt(@, loc1, Repeat(buffer, hd.bands))]
              ELSE w1
      w3 == IF hd.intrinsic_write = 0
              THEN [w2 EXCEPT !.f.dirty_tiles[tile_num] = 1]
              ELSE w2
      loc2 == loc1 + SliceBytes(f) * band
  IN IF ~fillok THEN SetErr(w1, SIF_ERROR_WRITE)
     ELSE IF far \/ ~CanWrite(loc2, SliceBytes(f)) THEN SetErr(w3, SIF_ERROR_WRITE)
     ELSE WriteTileHeader(
            [w3 EXCEPT !.d.tail = WriteAt(@, loc2, buffer),
                       !.f.tiles[tile_num].uniform_flags = SIF_CLEAR_BIT(@, band)],
            tile_num)

\* sif_set_tile_slice
SifSetTileSlice(w, buffer, tx, ty, band) ==
  LET f == w.f
      hd == f.hd
      extentX == MIN(hd.tile_width, hd.width - tx * hd.tile_width)
      extentY == MIN(hd.tile_height, hd.height - ty * hd.tile_height)
      tile_num == (hd.n_tiles_across * ty) + tx
  IN IF CheckFileFails(f) THEN SetErr(w, SIF_ERROR_INCOMPATIBLE_VERSION)
     ELSE IF tx < 0 \/ ty < 0 \/ tx >= hd.n_tiles_across
       THEN SetErr(w, SIF_ERROR_INVALID_TN)
     ELSE IF band < 0 \/ band >= hd.bands THEN SetErr(w, SIF_ERROR_INVALID_BAND)
     ELSE IF f.read_only # 0 THEN SetErr(w, SIF_ERROR_INVALID_FILE_MODE)
     ELSE IF tile_num \notin DOMAIN f.tiles THEN [w EXCEPT !.ub = TRUE]
     ELSE IF hd.intrinsic_write # 0 /\ IsUniform(hd, buffer, extentX, extentY)
       THEN WriteTileHeader(MarkSliceUniform(w, tile_num, band, buffer), tile_num)
     ELSE StoreSliceInBlock(w, buffer, tile_num, band)

\* sif_fill_tile_slice
SifFillTileSlice(w, tx, ty, band, value) ==
  LET f == w.f
      hd == f.hd
      tile_num == (hd.n_tiles_across * ty) + tx
  IN IF CheckFileFails(f) THEN SetErr(w, SIF_ERROR_INCOMPATIBLE_VERSION)
     ELSE IF tx < 0 \/ ty < 0 \/ tx >= hd.n_tiles_across
       THEN SetErr(w, SIF_ERROR_INVALID_TN)
     ELSE IF band < 0 \/ band >= hd.bands THEN SetErr(w, SIF_ERROR_INVALID_BAND)
     ELSE IF f.read_only # 0 THEN SetErr(w, SIF_ERROR_INVALID_FILE_MODE)
     ELSE IF tile_num \notin DOMAIN f.tiles THEN [w EXCEPT !.ub = TRUE]
     ELSE WriteTileHeader(MarkSliceUniform(w, tile_num, band, value), tile_num)

\* the loop of sif_fill_tiles over tiles tile_num .. n_tiles - 1
RECURSIVE FillTilesFrom(_, _, _, _)
FillTilesFrom(w, tile_num, band, value) ==
  IF tile_num >= w.f.hd.n_tiles THEN w
  ELSE FillTilesFrom(MarkSliceUniform(w, tile_num, band, value),
                     tile_num + 1, band, value)

\* a variant of sif_fill_tiles without the test of read_only, which
\* C18_ReadOnlyRejectsWrites tells from the code's
SifFillTilesAnyMode(w, band, value) ==
  IF CheckFileFails(w.f) THEN SetErr(w, SIF_ERROR_INCOMPATIBLE_VERSION)
  ELSE IF band < 0 \/ band >= w.f.hd.bands THEN SetErr(w, SIF_ERROR_INVALID_BAND)
  ELSE WriteTileHeaders(FillTilesFrom(w, 0, band, value))

\* sif_fill_tiles
SifFillTiles(w, band, value) ==
  IF CheckFileFails(w.f) THEN SetErr(w, SIF_ERROR_INCOMPATIBLE_VERSION)
  ELSE IF band < 0 \/ band >= w.f.hd.bands THEN SetErr(w, SIF_ERROR_INVALID_BAND)
  ELSE IF w.f.read_only # 0 THEN SetErr(w, SIF_ERROR_INVALID_FILE_MODE)
  ELSE WriteTileHeaders(FillTilesFrom(w, 0, band, value))

----------------------------------------------------------------------------
(* Raster window I/O. *)

\* n bytes of buf from byte offset off; a byte beyond the buffer reads as 0
BytesFrom(buf, off, n) ==
  [i \in 1..n |-> IF off + i <= Len(buf) THEN buf[off + i] ELSE 0]

\* the window arithmetic shared by sif_set_raster and sif_get_raster for the
\* tile (tx, ty) of the window (x, y, w, h)
WindowOnTile(hd, x, y, w, h, tx, ty) ==
  LET tw == hd.tile_width
      th == hd.tile_height
      sxt == MAX(0, x - tx * tw)
      syt == MAX(0, y - ty * th)
  IN [sxt |-> sxt, syt |-> syt,
      ext |-> MIN(tw - 1, x + w - 1 - (tx * tw)),
      eyt |-> MIN(th - 1, y + h - 1 - (ty * th)),
      sxd |-> (tx * tw + sxt) - x,
      syd |-> (ty * th + syt) - y]

\* the byte offset in the tile buffer of row cyt of the window: the source
\* multiplies the row by trs = n_tiles_across
TileRowOffset(hd, g, cyt) == (cyt * hd.n_tiles_across) + (g.sxt * hd.data_unit_size)

\* the byte offset in the caller's raster of the row that goes to tile row cyt
DataRowOffset(hd, g, w, cyt) ==
  ((g.syd + (cyt - g.syt)) * (hd.data_unit_size * w)) + (g.sxd * hd.data_unit_size)

\* the row loop of sif_set_raster from tile row cyt on: raster to tile buffer
RECURSIVE CopyRasterToTile(_, _, _, _, _, _)
CopyRasterToTile(hd, g, w, buffer, data, cyt) ==
  IF cyt > g.eyt THEN buffer
  ELSE CopyRasterToTile(hd, g, w,
         PutBytes(buffer, TileRowOffset(hd, g, cyt),
                  BytesFrom(data, DataRowOffset(hd, g, w, cyt),
                            (g.ext - g.sxt + 1) * hd.data_unit_size)),
         data, cyt + 1)

\* the row loop of sif_get_raster from tile row cyt on: tile buffer to raster
RECURSIVE CopyTileToRaster(_, _, _, _, _, _)
CopyTileToRaster(hd, g, w, data, buffer, cyt) ==
  IF cyt > g.eyt THEN data
  ELSE CopyTileToRaster(hd, g, w,
         PutBytes(data, DataRowOffset(hd, g, w, cyt),
                  BytesFrom(buffer, TileRowOffset(hd, g, cyt),
                            (g.ext - g.sxt + 1) * hd.data_unit_size)),
         buffer, cyt + 1)

\* a row copy of the window on tile (tx, ty) reaches beyond the slice bytes of
\* the tile buffer
RowsLeaveSlice(f, g) ==
  g.syt <= g.eyt
  /\ TileRowOffset(f.hd, g, g.eyt) + (g.ext - g.sxt + 1) * f.hd.data_unit_size
       > SliceBytes(f)

\* the k-th tile (from 0) of the window's tile range, rows of tiles outermost
WindowTile(hd, x, y, w, h, k) ==
  LET tnx1 == x \div hd.tile_width
      tnx2 == (x + w - 1) \div hd.tile_width
      tny1 == y \div hd.tile_height
  IN [tx |-> tnx1 + (k % (tnx2 - tnx1 + 1)), ty |-> tny1 + (k \div (tnx2 - tnx1 + 1))]

WindowTileCount(hd, x, y, w, h) ==
  (((x + w - 1) \div hd.tile_width) - (x \div hd.tile_width) + 1)
  * (((y + h - 1) \div hd.tile_height) - (y \div hd.tile_height) + 1)

\* the tile loop of sif_set_raster from the k-th tile on: get the slice, copy
\* the rows, set the slice, and return as soon as the error field is set
RECURSIVE SetRasterFrom(_, _, _, _, _, _, _, _)
SetRasterFrom(wd, data, x, y, w, h, band, k) ==
  IF k >= WindowTileCount(wd.f.hd, x, y, w, h) THEN wd
  ELSE LET t == WindowTile(wd.f.hd, x, y, w, h, k)
           g == WindowOnTile(wd.f.hd, x, y, w, h, t.tx, t.ty)
           got == SifGetTileSlice(wd, Zeros(SliceBytes(wd.f)), t.tx, t.ty, band)
           buffer == CopyRasterToTile(wd.f.hd, g, w, got.buf, data, g.syt)
           w1 == SifSetTileSlice([got.w EXCEPT !.ub = @ \/ RowsLeaveSlice(wd.f, g)],
                                 buffer, t.tx, t.ty, band)
       IN IF w1.f.error # 0 THEN w1
          ELSE SetRasterFrom(w1, data, x, y, w, h, band, k + 1)

\* sif_set_raster
SifSetRaster(wd, data, x, y, w, h, band) ==
  IF CheckFileFails(wd.f) THEN SetErr(wd, SIF_ERROR_INCOMPATIBLE_VERSION)
  ELSE IF wd.f.read_only # 0 THEN wd
  ELSE IF x < 0 \/ y < 0 THEN SetErr(wd, SIF_ERROR_INVALID_COORD)
  ELSE IF w < 1 \/ h < 1 \/ x + w > wd.f.hd.width \/ y + h > wd.f.hd.height
    THEN SetErr(wd, SIF_ERROR_INVALID_REGION_SIZE)
  ELSE IF band < 0 \/ band >= wd.f.hd.bands THEN SetErr(wd, SIF_ERROR_INVALID_BAND)
  ELSE SetRasterFrom(wd, data, x, y, w, h, band, 0)

\* the tile loop of sif_get_raster from the k-th tile on
RECURSIVE GetRasterFrom(_, _, _, _, _, _, _, _)
GetRasterFrom(wd, data, x, y, w, h, band, k) ==
  IF k >= WindowTileCount(wd.f.hd, x, y, w, h) THEN [w |-> wd, buf |-> data]
  ELSE LET t == WindowTile(wd.f.hd, x, y, w, h, k)
           g == WindowOnTile(wd.f.hd, x, y, w, h, t.tx, t.ty)
           got == SifGetTileSlice(wd, Zeros(SliceBytes(wd.f)), t.tx, t.ty, band)
       IN GetRasterFrom([got.w EXCEPT !.ub = @ \/ RowsLeaveSlice(wd.f, g)],
                        CopyTileToRaster(wd.f.hd, g, w, data, got.buf, g.syt),
                        x, y, w, h, band, k + 1)

\* sif_get_raster: the world after the call and the caller's raster
SifGetRaster(wd, data, x, y, w, h, band) ==
  IF CheckFileFails(wd.f)
    THEN [w |-> SetErr(wd, SIF_ERROR_INCOMPATIBLE_VERSION), buf |-> data]
  ELSE IF x < 0 \/ y < 0
    THEN [w |-> SetErr(wd, SIF_ERROR_INVALID_COORD), buf |-> data]
  ELSE IF w < 1 \/ h < 1 \/ x + w > wd.f.hd.width \/ y + h > wd.f.hd.height
    THEN [w |-> SetErr(wd, SIF_ERROR_INVALID_REGION_SIZE), buf |-> data]
  ELSE IF band < 0 \/ band >= wd.f.hd.bands
    THEN [w |-> SetErr(wd, SIF_ERROR_INVALID_BAND), buf |-> data]
  ELSE GetRasterFrom(wd, data, x, y, w, h, band, 0)

----------------------------------------------------------------------------
(* Meta-data.  file->meta_data is kept as the sequence of its pairs in the
   order _sif_write_meta_data walks the table: by bucket, and within a bucket
   from the head of the collision chain. *)

\* _sif_hash(key) % SIF_HASH_TABLE_SIZE.  The table size divides 2^32 and
\* 2^64, so the remainder of the unsigned long hash is the remainder kept here
\* at every step.
RECURSIVE HashFrom(_, _, _)
HashFrom(str, k, hash) ==
  IF k > Len(str) THEN hash
  ELSE HashFrom(str, k + 1, ((hash * 33) + str[k]) % SIF_HASH_TABLE_SIZE)

SifHash(str) == HashFrom(str, 1, 5381 % SIF_HASH_TABLE_SIZE)

\* _sif_get_meta_data_pair: the position of the pair with this key, 0 if none
GetMetaDataPair(f, key) ==
  IF \E k \in 1..Len(f.meta_data) : f.meta_data[k].key = key
    THEN CHOOSE k \in 1..Len(f.meta_data) : f.meta_data[k].key = key
    ELSE 0

\* _sif_insert_meta_data_pair: the pair becomes the head of its bucket's chain
InsertMetaDataPair(f, pair) ==
  LET md == f.meta_data
      before == {k \in 1..Len(md) : SifHash(md[k].key) < SifHash(pair.key)}
      n == Cardinality(before)
  IN [f EXCEPT !.meta_data = SubSeq(md, 1, n) \o <<pair>> \o SubSeq(md, n + 1, Len(md)),
               !.hd.n_keys = @ + 1]

\* _sif_unlink_meta_data_pair: the pair with this key leaves its chain; the
\* header's n_keys is not touched
UnlinkMetaDataPair(f, key) ==
  IF GetMetaDataPair(f, key) = 0 THEN f
  ELSE [f EXCEPT !.meta_data =
          SubSeq(@, 1, GetMetaDataPair(f, key) - 1)
            \o SubSeq(@, GetMetaDataPair(f, key) + 1, Len(@))]

\* sif_remove_meta_data_item
SifRemoveMetaDataItem(w, key) ==
  IF CheckFileFails(w.f) THEN SetErr(w, SIF_ERROR_INCOMPATIBLE_VERSION)
  ELSE [w EXCEPT !.f = UnlinkMetaDataPair(@, key)]

\* _sif_set_meta_data_len: a new key is inserted; an existing pair takes the
\* value only when the length differs from the one it holds
SetMetaDataLen(w, key, value, value_len) ==
  LET i == GetMetaDataPair(w.f, key)
  IN IF i = 0
       THEN [w EXCEPT !.f = InsertMetaDataPair(@,
               [key |-> key, key_length |-> Len(key) + 1,
                value |-> SubSeq(value, 1, value_len), value_length |-> value_len])]
     ELSE IF value_len # w.f.meta_data[i].value_length
       THEN [w EXCEPT !.f.meta_data[i].value = SubSeq(value, 1, value_len),
                      !.f.meta_data[i].value_length = value_len]
     ELSE w

\* sif_set_meta_data: the value is a C string, stored with its terminator
SifSetMetaData(w, key, str) ==
  IF CheckFileFails(w.f) THEN SetErr(w, SIF_ERROR_INCOMPATIBLE_VERSION)
  ELSE SetMetaDataLen(w, key, str \o <<0>>, Len(str) + 1)

\* sif_set_meta_data_binary
SifSetMetaDataBinary(w, key, buffer, n_bytes) ==
  IF CheckFileFails(w.f) THEN SetErr(w, SIF_ERROR_INCOMPATIBLE_VERSION)
  ELSE SetMetaDataLen(w, key, buffer, n_bytes)

\* sif_get_meta_data_binary: the world after the call, the value returned
\* (found = FALSE is the null pointer) and *n_bytes
SifGetMetaDataBinary(w, key) ==
  LET q == GetMetaDataPair(w.f, key)
  IN IF CheckFileFails(w.f)
       THEN [w |-> SetErr(w, SIF_ERROR_INCOMPATIBLE_VERSION),
             found |-> FALSE, value |-> <<>>, n_bytes |-> -1]
     ELSE IF q = 0
       THEN [w |-> SetErr(w, SIF_ERROR_META_DATA_KEY),
             found |-> FALSE, value |-> <<>>, n_bytes |-> 0]
     ELSE [w |-> w, found |-> TRUE, value |-> w.f.meta_data[q].value,
           n_bytes |-> w.f.meta_data[q].value_length]

\* _sif_null_terminator_check(v, n): each of its n rounds tests v[0]
NullTerminatorCheck(v, n) == n > 0 /\ v[1] = 0

\* sif_get_meta_data: the world after the call and the pointer returned
\* (found = FALSE is the null pointer).  The pointer to the stored value is
\* returned whatever the terminator check says.
SifGetMetaData(w, key) ==
  LET q == GetMetaDataPair(w.f, key)
  IN IF CheckFileFails(w.f)
       THEN [w |-> SetErr(w, SIF_ERROR_INCOMPATIBLE_VERSION), found |-> FALSE, value |-> <<>>]
     ELSE IF q = 0
       THEN [w |-> SetErr(w, SIF_ERROR_META_DATA_KEY), found |-> FALSE, value |-> <<>>]
     ELSE [w |-> IF NullTerminatorCheck(w.f.meta_data[q].value, w.f.meta_data[q].value_length)
                   THEN w ELSE SetErr(w, SIF_ERROR_META_DATA_VALUE),
           found |-> TRUE, value |-> w.f.meta_data[q].value]

\* the bytes of one pair as _sif_write_meta_data writes them
PairBytes(pair) ==
  Int32ToPackedBytes(pair.key_length) \o pair.key \o <<0>>
    \o Int32ToPackedBytes(pair.value_length) \o pair.value

\* the bytes _sif_write_meta_data gets out for the pairs from the k-th on, and
\* whether it got through them all: the fwrite of a value of length 0 reports
\* 0 items written, which is taken for a failure
RECURSIVE MetaDataBytes(_, _)
MetaDataBytes(md, k) ==
  IF k > Len(md) THEN [bytes |-> <<>>, ok |-> TRUE]
  ELSE IF md[k].value_length = 0
    THEN [bytes |-> Int32ToPackedBytes(md[k].key_length) \o md[k].key \o <<0>>
                      \o Int32ToPackedBytes(0),
          ok |-> FALSE]
  ELSE LET rest == MetaDataBytes(md, k + 1)
       IN [bytes |-> PairBytes(md[k]) \o rest.bytes, ok |-> rest.ok]

\* a variant of _sif_write_meta_data that cuts the file right after the last
\* pair, which C9_FileLengthOneMore tells from the code's
WriteMetaDataExact(w) ==
  LET loc == BlockLocation(w.f, LastUsedBlockIndex(w.f) + 1)
      m == MetaDataBytes(w.f.meta_data, 1)
  IN IF ~CanWrite(loc, Len(m.bytes)) THEN SetErr(w, SIF_ERROR_WRITE)
     ELSE IF ~m.ok
       THEN SetErr([w EXCEPT !.d.tail = WriteAt(@, loc, m.bytes)], SIF_ERROR_WRITE)
     ELSE [w EXCEPT !.d.tail =
             TruncateAt(WriteAt(@, loc, m.bytes), loc + Len(m.bytes))]

\* _sif_write_meta_data: the pairs go after the last used block and the file
\* is cut one byte after the last of them
WriteMetaData(w) ==
  LET loc == BlockLocation(w.f, LastUsedBlockIndex(w.f) + 1)
      m == MetaDataBytes(w.f.meta_data, 1)
  IN IF ~CanWrite(loc, Len(m.bytes) + 1) THEN SetErr(w, SIF_ERROR_WRITE)
     ELSE IF ~m.ok
       THEN SetErr([w EXCEPT !.d.tail = WriteAt(@, loc, m.bytes)], SIF_ERROR_WRITE)
     ELSE [w EXCEPT !.d.tail =
             TruncateAt(WriteAt(@, loc, m.bytes), loc + Len(m.bytes) + 1)]

\* the key a buffer read from the file names: its bytes up to the first 0
RECURSIVE CString(_, _)
CString(bytes, k) ==
  IF k > Len(bytes) \/ bytes[k] = 0 THEN <<>>
  ELSE <<bytes[k]>> \o CString(bytes, k + 1)

\* the loop of _sif_read_meta_data with n pairs still to read at offset pos.
\* ok = FALSE: a read failed, the table was freed and the error field set.
RECURSIVE ReadMetaDataFrom(_, _, _, _)
ReadMetaDataFrom(w, bits, n, pos) ==
  IF n <= 0 THEN [w |-> w, ok |-> TRUE]
  ELSE
    LET tail == w.d.tail
        klb == ReadAt(tail, pos, 4)
        kl == IF Len(klb) = 4 THEN PackedBytesToInt32(klb, bits) ELSE [lo |-> 0, hi |-> 0]
        keyb == ReadAt(tail, pos + 4, kl.lo)
        vlb == ReadAt(tail, pos + 4 + kl.lo, 4)
        vl == IF Len(vlb) = 4 THEN PackedBytesToInt32(vlb, bits) ELSE [lo |-> 0, hi |-> 0]
        valb == ReadAt(tail, pos + 8 + kl.lo, vl.lo)
        fail(code) == [w |-> SetErr([w EXCEPT !.f.meta_data = <<>>], code), ok |-> FALSE]
    IN IF Len(klb) # 4 THEN fail(SIF_ERROR_READ)
       ELSE IF kl.hi # 0 \/ kl.lo < 0 THEN fail(SIF_ERROR_MEM)
       ELSE IF Len(keyb) # kl.lo THEN fail(SIF_ERROR_READ)
       ELSE IF Len(vlb) # 4 THEN fail(SIF_ERROR_READ)
       ELSE IF vl.hi # 0 \/ vl.lo < 0 THEN fail(SIF_ERROR_MEM)
       ELSE IF Len(valb) = 0 THEN fail(SIF_ERROR_READ)
       ELSE LET short == Len(valb) < vl.lo \/ kl.lo = 0 \/ keyb[kl.lo] # 0
                w1 == SifSetMetaDataBinary([w EXCEPT !.ub = @ \/ short],
                        CString(keyb, 1), valb \o Zeros(vl.lo - Len(valb)), vl.lo)
            IN IF w1.f.error # 0 THEN [w |-> w1, ok |-> TRUE]
               ELSE ReadMetaDataFrom(w1, bits, n - 1, pos + 8 + kl.lo + vl.lo)

\* _sif_read_meta_data: n_keys is counted again as the pairs are inserted
ReadMetaData(w, bits) ==
  ReadMetaDataFrom([w EXCEPT !.f.hd.n_keys = 0], bits, w.f.hd.n_keys,
                   BlockLocation(w.f, LastUsedBlockIndex(w.f) + 1))

----------------------------------------------------------------------------
(* Consolidation and defragmentation. *)

\* the band loop of _sif_get_tile from band i on.  A band of a tile that is
\* not completely uniform is read with tile_bytes bytes from the band's offset
\* in the block to the band's offset in the buffer of tile_bytes bytes.
RECURSIVE GetTileFrom(_, _, _, _)
GetTileFrom(w, tile_no, data, i) ==
  LET f == w.f
      hd == f.hd
      t == f.tiles[tile_no]
      off == SliceBytes(f) * i
      fl == CompletelyUniformFlags(hd, t.uniform_flags)
      w1 == [w EXCEPT !.f.tiles[tile_no].uniform_flags = fl]
      upv == UnitAt(t.uniform_pixel_values, i, hd.data_unit_size)
      got == IF t.block_num_hi # 0 THEN <<>>
             ELSE ReadAt(w.d.tail, BlockLocation(f, t.block_num) + off, hd.tile_bytes)
  IN IF i >= hd.bands THEN [w |-> w, buf |-> data]
     ELSE IF \A j \in 1..hd.n_uniform_flags : fl[j] = 255
       THEN GetTileFrom(w1, tile_no,
              PutBytes(data, off,
                       IF hd.data_unit_size = 1 THEN Repeat(upv, f.units_per_slice)
                       ELSE [k \in 1..f.units_per_slice |-> upv[1]]),
              i + 1)
     ELSE IF t.block_num_hi = 0 /\ t.block_num < 0
       THEN [w |-> [w1 EXCEPT !.ub = TRUE], buf |-> data]
     ELSE LET w2 == [w1 EXCEPT !.ub = @ \/ (off + Len(got) > hd.tile_bytes)]
          IN IF Len(got) # hd.tile_bytes
               THEN [w |-> SetErr(w2, SIF_ERROR_READ), buf |-> PutBytes(data, off, got)]
               ELSE GetTileFrom(w2, tile_no, PutBytes(data, off, got), i + 1)

\* _sif_get_tile
GetTile(w, tile_no) == GetTileFrom(w, tile_no, Zeros(w.f.hd.tile_bytes), 0)

\* the band loop of _sif_uniform_check from band i on: a band whose flag is
\* clear and whose slice of data is uniform gets its value and its flag
RECURSIVE UniformCheckBands(_, _, _, _, _, _)
UniformCheckBands(f, tile_no, data, extentX, extentY, i) ==
  IF i >= f.hd.bands THEN f
  ELSE LET t == f.tiles[tile_no]
           datau == SubSeq(data, i * SliceBytes(f) + 1, (i + 1) * SliceBytes(f))
           f1 == IF SIF_GET_BIT(t.uniform_flags, i) = 0
                    /\ IsUniform(f.hd, datau, extentX, extentY)
                    /\ ~NoBlock(t)
                   THEN [f EXCEPT
                           !.tiles[tile_no].uniform_pixel_values =
                              PutBytes(@, i * f.hd.data_unit_size,
                                       SubSeq(datau, 1, f.hd.data_unit_size)),
                           !.tiles[tile_no].uniform_flags = SIF_SET_BIT(@, i)]
                   ELSE f
       IN UniformCheckBands(f1, tile_no, data, extentX, extentY, i + 1)

\* the end of _sif_uniform_check, f1 being the handle after the band loop: a
\* tile whose bands are all uniform gives its block back; its record is written
ReleaseIfUniform(w, f1, tile_no) ==
  LET hd == f1.hd
      t == f1.tiles[tile_no]
      fl == CompletelyUniformFlags(hd, t.uniform_flags)
      release == (\A j \in 1..hd.n_uniform_flags : fl[j] = 255) /\ ~NoBlock(t)
      oob == release /\ ~BlockIndexOk(f1, t)
  IN WriteTileHeader(
       [w EXCEPT
          !.f = [f1 EXCEPT
                   !.tiles[tile_no] =
                      [uniform_flags |-> fl,
                       uniform_pixel_values |-> t.uniform_pixel_values,
                       block_num |-> IF release THEN -1 ELSE t.block_num,
                       block_num_hi |-> IF release THEN 0 ELSE t.block_num_hi],
                   !.blocks_to_tiles =
                      IF release /\ ~oob THEN [@ EXCEPT ![t.block_num] = -1] ELSE @],
          !.ub = @ \/ oob],
       tile_no)

\* _sif_uniform_check once _sif_get_tile has returned got
UniformCheckTile(got, tile_no) ==
  LET hd == got.w.f.hd
      row == tile_no \div hd.n_tiles_across
      col == tile_no % hd.n_tiles_across
      extentX == MIN(hd.tile_width, hd.width - col * hd.tile_width)
      extentY == MIN(hd.tile_height, hd.height - row * hd.tile_height)
  IN IF got.w.f.error # 0 THEN got.w
     ELSE ReleaseIfUniform(got.w,
            UniformCheckBands(got.w.f, tile_no, got.buf, extentX, extentY, 0),
            tile_no)

\* _sif_uniform_check
UniformCheck(w, tile_no) ==
  IF NoBlock(w.f.tiles[tile_no]) THEN w
  ELSE UniformCheckTile(GetTile(w, tile_no), tile_no)

\* the loop of _sif_mark_uniform_tiles from tile i on; MarkChecked is the
\* loop after _sif_uniform_check of tile i has left w1
RECURSIVE MarkUniformTilesFrom(_, _), MarkChecked(_, _)
MarkChecked(w1, i) ==
  IF w1.f.error # 0 THEN w1
  ELSE MarkUniformTilesFrom([w1 EXCEPT !.f.dirty_tiles[i] = 0], i + 1)

MarkUniformTilesFrom(w, i) ==
  IF i >= w.f.hd.n_tiles THEN w
  ELSE IF ~NoBlock(w.f.tiles[i]) /\ w.f.dirty_tiles[i] # 0
    THEN MarkChecked(UniformCheck(w, i), i)
  ELSE MarkUniformTilesFrom(w, i + 1)

\* _sif_mark_uniform_tiles
MarkUniformTiles(w) ==
  IF w.f.read_only # 0 \/ w.f.hd.consolidate = 0 THEN w
  ELSE MarkUniformTilesFrom(w, 0)

\* sif_consolidate
SifConsolidate(w) ==
  IF w.f.read_only # 0 \/ w.f.hd.consolidate = 0 THEN w
  ELSE WriteMetaData(MarkUniformTiles(w))

\* _sif_swap_blocks(file, a, b, da, db, assign) for a block a below n_tiles;
\* far: block b lies beyond 2^32 blocks
SwapBlocks(w, a, b, far, assign) ==
  LET tb == w.f.hd.tile_bytes
      pos_a == BlockLocation(w.f, a)
      pos_b == BlockLocation(w.f, b)
      da == ReadAt(w.d.tail, pos_a, tb)
      db == IF far THEN <<>> ELSE ReadAt(w.d.tail, pos_b, tb)
      w1 == IF assign THEN w ELSE [w EXCEPT !.d.tail = WriteAt(@, pos_b, da)]
  IN IF a = b /\ ~far THEN w
     ELSE IF ~assign /\ Len(da) # tb THEN SetErr(w, SIF_ERROR_READ)
     ELSE IF Len(db) # tb THEN SetErr(w, SIF_ERROR_READ)
     ELSE IF ~assign /\ ~CanWrite(pos_b, tb) THEN SetErr(w, SIF_ERROR_WRITE)
     ELSE IF ~CanWrite(pos_a, tb) THEN SetErr(w1, SIF_ERROR_WRITE)
     ELSE [w1 EXCEPT !.d.tail = WriteAt(@, pos_a, db)]

\* a variant of the loop of sif_defragment that moves nothing, which
\* C4_DefragmentCompactsIfSet tells from the code's
DefragmentFromNowhere(w, i, bn1) == w

\* the loop of sif_defragment from tile i on, bn1 being the next block to fill
RECURSIVE DefragmentFrom(_, _, _)
DefragmentFrom(w, i, bn1) ==
  IF i >= w.f.hd.n_tiles THEN w
  ELSE IF NoBlock(w.f.tiles[i]) THEN DefragmentFrom(w, i + 1, bn1)
  ELSE
    LET f == w.f
        bn2 == f.tiles[i].block_num
        hi2 == f.tiles[i].block_num_hi
        far == hi2 # 0
        oob == ~BlockIndexOk(f, f.tiles[i])
        tn1 == f.blocks_to_tiles[bn1]
        f1 == [f EXCEPT !.tiles[i].block_num = bn1,
                        !.tiles[i].block_num_hi = 0,
                        !.blocks_to_tiles[bn1] = i]
        f2 == IF tn1 # -1
                THEN [f1 EXCEPT !.tiles[tn1].block_num = bn2,
                                !.tiles[tn1].block_num_hi = hi2,
                                !.blocks_to_tiles =
                                   IF oob THEN @ ELSE [@ EXCEPT ![bn2] = tn1]]
                ELSE [f1 EXCEPT !.blocks_to_tiles =
                                   IF oob THEN @ ELSE [@ EXCEPT ![bn2] = -1]]
        w2 == [w EXCEPT !.f = f2, !.ub = @ \/ oob]
        w3 == IF tn1 # -1 THEN WriteTileHeader(w2, tn1) ELSE w2
        w4 == SwapBlocks(w3, bn1, bn2, far, tn1 = -1)
    IN IF tn1 # -1 /\ w3.f.error # 0 THEN w3
       ELSE IF w4.f.error # 0 THEN w4
       ELSE LET w5 == WriteTileHeader(w4, i)
            IN IF w5.f.error # 0 THEN w5 ELSE DefragmentFrom(w5, i + 1, bn1 + 1)

\* the end of sif_defragment: the meta-data is written again behind the blocks
DefragmentEnd(w) == IF w.f.error # 0 THEN w ELSE WriteMetaData(w)

\* sif_defragment
SifDefragment(w) ==
  IF CheckFileFails(w.f) THEN SetErr(w, SIF_ERROR_INCOMPATIBLE_VERSION)
  ELSE IF w.f.read_only # 0 \/ w.f.hd.defragment = 0 THEN w
  ELSE DefragmentEnd(DefragmentFrom(w, 0, 0))

----------------------------------------------------------------------------
(* Flush, close, create, open. *)

\* the calls of sif_consolidate and sif_defragment in sif_flush
FlushConsolidate(w) == IF w.f.hd.consolidate # 0 THEN SifConsolidate(w) ELSE w

FlushDefragment(w) == IF w.f.hd.defragment # 0 THEN SifDefragment(w) ELSE w

\* sif_flush (its return value is 0 on every path)
SifFlush(w) ==
  IF w.f.read_only # 0 THEN w
  ELSE FlushDefragment(FlushConsolidate(
         WriteMetaData(WriteTileHeaders(WriteHeader(w)))))

\* sif_use_file_format_version
SifUseFileFormatVersion(w, version) ==
  IF version < 1 THEN SetErr(w, SIF_ERROR_CANNOT_WRITE_VERSION)
  ELSE [w EXCEPT !.f.use_file_version = version]

\* a variant of sif_set_user_data_type that stores nothing, which
\* C14_GeometryFixed tells from the code's
SifSetUserDataTypeNowhere(w, user_data_type) ==
  IF CheckFileFails(w.f) THEN SetErr(w, SIF_ERROR_INCOMPATIBLE_VERSION) ELSE w

\* sif_set_user_data_type
SifSetUserDataType(w, user_data_type) ==
  IF CheckFileFails(w.f) THEN SetErr(w, SIF_ERROR_INCOMPATIBLE_VERSION)
  ELSE [w EXCEPT !.f.hd.user_data_type = user_data_type]

\* the simple convention: user_data_type = base type code + 10 * endian
SIF_SIMPLE_ENDIAN(t) == t \div 10
SIF_SIMPLE_BASE_TYPE_CODE(x) == x % 10

\* sif_simple_set_endian: the argument is checked before the handle
SifSimpleSetEndian(w, endian) ==
  IF endian < 0 \/ endian > 1 THEN SetErr(w, SIF_SIMPLE_ERROR_UNDEFINED_ENDIAN)
  ELSE IF CheckFileFails(w.f) THEN SetErr(w, SIF_ERROR_INCOMPATIBLE_VERSION)
  ELSE [w EXCEPT !.f.hd.user_data_type =
                    SIF_SIMPLE_BASE_TYPE_CODE(w.f.hd.user_data_type) + 10 * endian]

\* sif_simple_set_data_type
SifSimpleSetDataType(w, data_type_code) ==
  IF data_type_code < 0 \/ data_type_code > 9
    THEN SetErr(w, SIF_SIMPLE_ERROR_UNDEFINED_DT)
  ELSE IF CheckFileFails(w.f) THEN SetErr(w, SIF_ERROR_INCOMPATIBLE_VERSION)
  ELSE [w EXCEPT !.f.hd.user_data_type =
                    data_type_code + 10 * SIF_SIMPLE_ENDIAN(w.f.hd.user_data_type)]

\* a variant of the argument check that lets a null filename through, which
\* C12_CreateRejectsBadArgs tells from the code's
CreateArgsOkWithoutName(g) ==
  ~(g.bands < 1 \/ g.width < 1 \/ g.height < 1 \/ g.tile_width < 1
      \/ g.tile_height < 1 \/ g.data_unit_size < 1)

\* the argument check of sif_create
CreateArgsOk(g) ==
  ~(g.bands < 1 \/ g.width < 1 \/ g.height < 1 \/ g.tile_width < 1
      \/ g.tile_height < 1 \/ g.data_unit_size < 1 \/ g.filename = 0)

\* sif_create with arguments that pass the check: the handle and the new
\* file.  intrinsic_write is set whatever the argument; the header is written
\* while use_file_version is still 0.
SifCreate(g) ==
  LET n_tiles_across == CEIL_DIV(g.width, g.tile_width)
      n_tiles == n_tiles_across * CEIL_DIV(g.height, g.tile_height)
      hd == [version |-> SIF_VERSION, magic_number |-> SIF_MAGIC_NUMBER,
             width |-> g.width, height |-> g.height, bands |-> g.bands,
             n_keys |-> 0, n_tiles |-> n_tiles,
             tile_width |-> g.tile_width, tile_height |-> g.tile_height,
             tile_bytes |-> g.tile_width * g.tile_height * g.bands * g.data_unit_size,
             n_tiles_across |-> n_tiles_across,
             data_unit_size |-> g.data_unit_size,
             user_data_type |-> g.user_data_type,
             defragment |-> g.defragment, consolidate |-> g.consolidate,
             intrinsic_write |-> 1,
             tile_header_bytes |-> g.bands * g.data_unit_size + CEIL_DIV(g.bands, 8) + 4,
             n_uniform_flags |-> CEIL_DIV(g.bands, 8)]
      f == [hd |-> hd, tiles |-> AllocTileHeaders(hd),
            blocks_to_tiles |-> [i \in 0..(n_tiles - 1) |-> -1],
            dirty_tiles |-> [i \in 0..(n_tiles - 1) |-> 0],
            meta_data |-> <<>>, read_only |-> 0, error |-> SIF_ERROR_NONE,
            base_location |-> 0, units_per_slice |-> g.tile_width * g.tile_height,
            header_bytes |-> 0, use_file_version |-> 0]
      d == [exists |-> TRUE, hdr |-> <<>>, tiles |-> <<>>, tail |-> <<>>]
      w1 == WriteHeader([f |-> f, d |-> d, ub |-> FALSE])
      w2 == [w1 EXCEPT !.f.base_location =
                          w1.f.header_bytes + (hd.tile_header_bytes * hd.n_tiles)]
  IN SifUseFileFormatVersion(WriteTileHeaders(w2), SIF_VERSION)

\* the second loop of sif_open over tiles i .. n_tiles - 1: the block of every
\* tile that has one is entered in blocks_to_tiles
RECURSIVE OpenBlocksFrom(_, _)
OpenBlocksFrom(w, i) ==
  IF i >= w.f.hd.n_tiles THEN w
  ELSE LET t == w.f.tiles[i]
       IN IF NoBlock(t) THEN OpenBlocksFrom(w, i + 1)
          ELSE IF BlockIndexOk(w.f, t)
            THEN OpenBlocksFrom([w EXCEPT !.f.blocks_to_tiles[t.block_num] = i], i + 1)
          ELSE OpenBlocksFrom([w EXCEPT !.ub = TRUE], i + 1)

\* a header field of a file the library wrote (below 2^31)
HeaderField(p, bits) == PackedBytesToInt32(p, bits).lo

\* a variant of the test of sif_open that lets any version through, which
\* C10_OpenRejectsSilently tells from the code's
HeaderRejectedByMagic(version, magic_number) == magic_number # SIF_MAGIC_NUMBER

\* the test sif_open makes on the header it has read: a version this library
\* does not know, or another magic number
HeaderRejected(version, magic_number) ==
  \/ version.hi # 0
  \/ version.lo > SIF_VERSION
  \/ magic_number # SIF_MAGIC_NUMBER

\* sif_open of the file d.  ret is "null" (0 is returned), "handle", or "freed":
\* after a failed _sif_read_meta_data everything is freed and the pointer to
\* the freed structure is returned.
SifOpen(d, read_only, bits) ==
  LET version == PackedBytesToInt32(d.hdr.version, bits)
      ints == [n \in HeaderIntFields |-> HeaderField(d.hdr.ints[n], bits)]
      hd0 == [n \in HeaderIntFields \cup {"version", "magic_number"} |->
                IF n = "version" THEN version.lo
                ELSE IF n = "magic_number" THEN d.hdr.magic_number
                ELSE ints[n]]
      hd == [hd0 EXCEPT
               !.tile_header_bytes = hd0.bands * hd0.data_unit_size + CEIL_DIV(hd0.bands, 8) + 4,
               !.n_uniform_flags = CEIL_DIV(hd0.bands, 8)]
      header_bytes == HeaderField(d.hdr.header_bytes, bits)
      tiles == [i \in 0..(hd.n_tiles - 1) |->
                  LET bn == PackedBytesToInt32(d.tiles[i].block_num, bits)
                  IN [uniform_flags |-> d.tiles[i].uniform_flags,
                      uniform_pixel_values |-> d.tiles[i].uniform_pixel_values,
                      block_num |-> bn.lo, block_num_hi |-> bn.hi]]
      f == [hd |-> hd, tiles |-> tiles,
            blocks_to_tiles |-> [i \in 0..(hd.n_tiles - 1) |-> -1],
            dirty_tiles |-> [i \in 0..(hd.n_tiles - 1) |-> 0],
            meta_data |-> <<>>, read_only |-> read_only, error |-> SIF_ERROR_NONE,
            base_location |-> header_bytes + (hd.tile_header_bytes * hd.n_tiles),
            units_per_slice |-> hd.tile_width * hd.tile_height,
            header_bytes |-> header_bytes, use_file_version |-> version.lo]
      w1 == OpenBlocksFrom([f |-> f, d |-> d, ub |-> FALSE], 0)
      w2 == ReadMetaData(w1, bits).w
      none == [f |-> <<>>, d |-> d, ub |-> FALSE]
  IN IF ~d.exists THEN [ret |-> "null", w |-> none]
     ELSE IF HeaderRejected(version, d.hdr.magic_number) THEN [ret |-> "null", w |-> none]
     ELSE IF w2.f.error # 0 THEN [ret |-> "freed", w |-> w2]
     ELSE [ret |-> "handle", w |-> w2]

----------------------------------------------------------------------------
(* The simple interface: the data units are numbers of one of ten types and
   the file declares the byte order they are stored in. *)

\* the inner loop of _sif_swap_bytes for one i, from byte index k on (indices
\* from 0): buffer[k] and buffer[i] change places, k advancing by elem_size
RECURSIVE SwapWithFrom(_, _, _, _, _)
SwapWithFrom(buffer, i, k, n_bytes, elem_size) ==
  IF k >= n_bytes THEN buffer
  ELSE SwapWithFrom([buffer EXCEPT ![k + 1] = buffer[i + 1], ![i + 1] = buffer[k + 1]],
                    i, k + elem_size, n_bytes, elem_size)

\* _sif_swap_bytes, its outer loop from i on: m = esz_h - i - 1
RECURSIVE SwapBytesFrom(_, _, _, _)
SwapBytesFrom(buffer, i, n_bytes, elem_size) ==
  IF i >= elem_size \div 2 THEN buffer
  ELSE SwapBytesFrom(
         SwapWithFrom(buffer, i, (elem_size \div 2) - i - 1, n_bytes, elem_size),
         i + 1, n_bytes, elem_size)

\* _sif_buffer_host_to_code on a build whose own order is native:
\* _sif_buffer_host_to_big swaps on a little-endian host and
\* _sif_buffer_host_to_little on a big-endian one; any other code does nothing
BufferHostToCode(buffer, n_bytes, elem_size, simple_endian_code, native) ==
  IF simple_endian_code = SIF_SIMPLE_BIG_ENDIAN /\ native = SIF_SIMPLE_LITTLE_ENDIAN
    THEN SwapBytesFrom(buffer, 0, n_bytes, elem_size)
  ELSE IF simple_endian_code = SIF_SIMPLE_LITTLE_ENDIAN /\ native = SIF_SIMPLE_BIG_ENDIAN
    THEN SwapBytesFrom(buffer, 0, n_bytes, elem_size)
  ELSE buffer

\* _sif_buffer_code_to_host: _sif_buffer_big_to_host swaps on a little-endian
\* host and _sif_buffer_little_to_host on a big-endian one
BufferCodeToHost(buffer, n_bytes, elem_size, simple_endian_code, native) ==
  IF simple_endian_code = SIF_SIMPLE_BIG_ENDIAN /\ native = SIF_SIMPLE_LITTLE_ENDIAN
    THEN SwapBytesFrom(buffer, 0, n_bytes, elem_size)
  ELSE IF simple_endian_code = SIF_SIMPLE_LITTLE_ENDIAN /\ native = SIF_SIMPLE_BIG_ENDIAN
    THEN SwapBytesFrom(buffer, 0, n_bytes, elem_size)
  ELSE buffer

\* _sif_simple_data_type_sizes_bytes
SimpleDataTypeSizesBytes == <<1, 1, 2, 2, 4, 4, 8, 8, 4, 8>>

\* sif_simple_create accepts the data type code
SimpleCreateArgsOk(g, simple_data_type) ==
  /\ ~(simple_data_type < 0 \/ simple_data_type > 9)
  /\ CreateArgsOk([g EXCEPT !.data_unit_size = SimpleDataTypeSizesBytes[simple_data_type + 1]])

\* sif_simple_create with arguments that pass the checks: sif_create with the
\* size of the type and the host's order, then sif_set_agreement("simple"),
\* which stores the string under the key "_sif_agree"
SifSimpleCreate(g, simple_data_type, native) ==
  SifSetMetaData(
    SifCreate([g EXCEPT !.data_unit_size = SimpleDataTypeSizesBytes[simple_data_type + 1],
                        !.user_data_type = native * 10 + simple_data_type]),
    <<95, 115, 105, 102, 95, 97, 103, 114, 101, 101>>,
    <<115, 105, 109, 112, 108, 101>>)

\* sif_simple_set_raster.  The raster is copied to file->simple_region_buffer,
\* which _sif_simple_alloc_region_buffer leaves unallocated for a region of no
\* bytes or fewer.
SifSimpleSetRaster(wd, data, x, y, w, h, band, native) ==
  IF CheckFileFails(wd.f) THEN SetErr(wd, SIF_ERROR_INCOMPATIBLE_VERSION)
  ELSE IF wd.f.error # 0 THEN wd
  ELSE IF SIF_SIMPLE_ENDIAN(wd.f.hd.user_data_type) # native
    THEN IF wd.f.hd.data_unit_size * w * h <= 0 THEN [wd EXCEPT !.ub = TRUE]
         ELSE SifSetRaster(wd,
                BufferHostToCode(BytesFrom(data, 0, wd.f.hd.data_unit_size * w * h),
                                 wd.f.hd.data_unit_size * w * h, wd.f.hd.data_unit_size,
                                 SIF_SIMPLE_ENDIAN(wd.f.hd.user_data_type), native),
                x, y, w, h, band)
  ELSE SifSetRaster(wd, data, x, y, w, h, band)

\* sif_simple_get_raster: the world after the call and the caller's raster.
\* After sif_get_raster the function passes file->simple_region_buffer, not
\* data, to _sif_buffer_code_to_host, and with the code
\* SIF_SIMPLE_NATIVE_ENDIAN, for which BufferCodeToHost leaves the buffer as
\* it is: data stays as sif_get_raster left it.
SifSimpleGetRaster(wd, data, x, y, w, h, band, native) ==
  IF CheckFileFails(wd.f)
    THEN [w |-> SetErr(wd, SIF_ERROR_INCOMPATIBLE_VERSION), buf |-> data]
  ELSE SifGetRaster(wd, data, x, y, w, h, band)

\* sif_simple_fill_tiles: on a file in the host's order nothing is called
SifSimpleFillTiles(wd, band, value, native) ==
  IF CheckFileFails(wd.f) THEN SetErr(wd, SIF_ERROR_INCOMPATIBLE_VERSION)
  ELSE IF wd.f.read_only # 0 THEN wd
  ELSE IF SIF_SIMPLE_ENDIAN(wd.f.hd.user_data_type) # native
    THEN SifFillTiles(wd, band,
           BufferHostToCode(BytesFrom(value, 0, wd.f.hd.data_unit_size),
                            wd.f.hd.data_unit_size, wd.f.hd.data_unit_size,
                            SIF_SIMPLE_ENDIAN(wd.f.hd.user_data_type), native))
  ELSE wd

----------------------------------------------------------------------------
(* The state machine: one caller working on one file path with at most one
   handle at a time. *)

\* arguments of sif_create that pass its check: filename is 1 for a path and
\* 0 for a null pointer
ValidGeometries ==
  { [width |-> 2, height |-> 2, bands |-> 1, data_unit_size |-> 1,
     user_data_type |-> 0, consolidate |-> 1, defragment |-> 1,
     tile_width |-> 2, tile_height |-> 2, intrinsic_write |-> 1, filename |-> 1],
    [width |-> 3, height |-> 1, bands |-> 2, data_unit_size |-> 1,
     user_data_type |-> 0, consolidate |-> 1, defragment |-> 1,
     tile_width |-> 2, tile_height |-> 1, intrinsic_write |-> 0, filename |-> 1],
    [width |-> 4, height |-> 1, bands |-> 1, data_unit_size |-> 1,
     user_data_type |-> 0, consolidate |-> 1, defragment |-> 1,
     tile_width |-> 2, tile_height |-> 1, intrinsic_write |-> 1, filename |-> 1] }

\* the first of them with one argument below 1, or without a filename
InvalidGeometries ==
  LET g == [width |-> 2, height |-> 2, bands |-> 1, data_unit_size |-> 1,
            user_data_type |-> 0, consolidate |-> 1, defragment |-> 1,
            tile_width |-> 2, tile_height |-> 2, intrinsic_write |-> 1, filename |-> 1]
  IN { [g EXCEPT ![n] = 0] :
         n \in {"width", "height", "bands", "data_unit_size", "tile_width",
                "tile_height", "filename"} }
       \cup {[g EXCEPT !.height = -1]}

\* the arguments of sif_create that are tried
Geometries == ValidGeometries \cup InvalidGeometries

Bytes == 0..MaxByte

\* no handle / no file at the path
NoFile == <<>>
NoDisk == [exists |-> FALSE, hdr |-> <<>>, tiles |-> <<>>, tail |-> <<>>]

World == [f |-> file, d |-> disk, ub |-> FALSE]

\* tile coordinates tried: every tile, one column beyond and one row beyond
TileCoords(f) ==
  LET n_down == f.hd.n_tiles \div f.hd.n_tiles_across
  IN {<<tx, ty>> : tx \in 0..(f.hd.n_tiles_across - 1), ty \in 0..(n_down - 1)}
       \cup {<<f.hd.n_tiles_across, 0>>, <<0, n_down>>}

\* bands tried: every band and one beyond
BandArgs(f) == 0..f.hd.bands

SliceBuffers(f) == [1..SliceBytes(f) -> Bytes]
RasterBuffers(f) == [1..(f.hd.width * f.hd.height * f.hd.data_unit_size) -> Bytes]
FillValues(f) == [1..f.hd.data_unit_size -> Bytes]

\* the images made through the simple interface: two pixels in one tile, of a
\* 16-bit, a 32-bit and a 64-bit type, and a type code out of range
SimpleGeometries ==
  { [width |-> 2, height |-> 1, bands |-> 1, data_unit_size |-> 0,
     user_data_type |-> 0, consolidate |-> 1, defragment |-> 1,
     tile_width |-> 2, tile_height |-> 1, intrinsic_write |-> 1, filename |-> 1] }
SimpleDataTypes == {2, 4, 6, 10}

\* the data units handed to the simple interface: all bytes zero, or the
\* bytes 1, 2, ... in the order of the host's memory
SimpleUnits(f) == {Zeros(f.hd.data_unit_size), [i \in 1..f.hd.data_unit_size |-> i]}

\* the rasters of the whole image made of these units
SimpleRasters(f) ==
  {[i \in 1..(f.hd.width * f.hd.height * f.hd.data_unit_size) |->
      u[((i - 1) \div f.hd.data_unit_size) + 1][((i - 1) % f.hd.data_unit_size) + 1]] :
     u \in [1..(f.hd.width * f.hd.height) -> SimpleUnits(f)]}

\* meta-data keys (the two hash to the same bucket) and values
MetaKeys == {<<97>>, <<225>>}
MetaValues == {<<>>, <<0>>, <<1>>, <<1, 0>>}
MetaStrings == {<<>>, <<1>>}

\* what a file from elsewhere may carry in its header
ForeignVersions == {3}
ForeignMagic == <<33, 42, 42, 83, 73, 70, 42, 43>>

\* The call returns with world w, or, after undefined behaviour, the process
\* may die instead.
\* the error field of the handle when a call is made
ErrorBefore == IF handle = "open" THEN file.error ELSE SIF_ERROR_NONE

\* no call so far has had undefined behaviour: what a program does after it is
\* not followed further
Defined == ~last_op.ub

\* a call returns: the handle and the file are as the call left them, or, when
\* the call had undefined behaviour, the process may be gone
Return(w, name, ret, out) ==
  /\ ops' = ops + 1
  /\ disk' = w.d
  /\ error_free' = (error_free /\ w.f.error = SIF_ERROR_NONE)
  /\ \/ /\ handle' = "open" /\ file' = w.f
        /\ last_op' = [name |-> name, ret |-> ret, out |-> out, error |-> w.f.error,
                       before |-> ErrorBefore, ub |-> w.ub]
     \/ /\ w.ub /\ handle' = "crashed" /\ file' = NoFile
        /\ last_op' = [name |-> name, ret |-> ret, out |-> out, error |-> w.f.error,
                       before |-> ErrorBefore, ub |-> TRUE]
  /\ UNCHANGED <<long_bits, native_endian>>

Init ==
  /\ long_bits \in {32, 64}
  /\ native_endian = SIF_SIMPLE_LITTLE_ENDIAN
  /\ handle = "none"
  /\ file = NoFile
  /\ disk = NoDisk
  /\ last_op = [name |-> "init", ret |-> 0, out |-> <<>>, error |-> SIF_ERROR_NONE,
                before |-> SIF_ERROR_NONE, ub |-> FALSE]
  /\ ops = 0
  /\ error_free = TRUE

Create ==
  /\ handle = "none" /\ ops < MaxOps /\ Defined
  /\ \E g \in Geometries :
       IF CreateArgsOk(g)
         THEN Return(SifCreate(g), "create", 1, g)
         ELSE /\ ops' = ops + 1
              /\ last_op' = [name |-> "create", ret |-> 0, out |-> g,
                             error |-> SIF_ERROR_NONE, before |-> SIF_ERROR_NONE,
                             ub |-> FALSE]
              /\ error_free' = FALSE
              /\ UNCHANGED <<long_bits, native_endian, handle, file, disk>>

\* sif_open has returned r
OpenReturn(r) ==
  IF r.ret = "handle" THEN Return(r.w, "open", 1, <<>>)
  ELSE /\ ops' = ops + 1
       /\ file' = NoFile
       /\ \/ /\ handle' = (IF r.ret = "null" THEN "none" ELSE "freed")
             /\ last_op' = [name |-> "open", ret |-> IF r.ret = "null" THEN 0 ELSE 1,
                            out |-> <<>>, error |-> SIF_ERROR_NONE,
                            before |-> SIF_ERROR_NONE, ub |-> r.w.ub]
          \/ /\ r.w.ub /\ handle' = "crashed"
             /\ last_op' = [name |-> "open", ret |-> 1, out |-> <<>>,
                            error |-> SIF_ERROR_NONE,
                            before |-> SIF_ERROR_NONE, ub |-> TRUE]
       /\ error_free' = FALSE
       /\ UNCHANGED <<long_bits, native_endian, disk>>

Open ==
  /\ handle = "none" /\ ops < MaxOps /\ Defined
  /\ \E read_only \in {0, 1} : OpenReturn(SifOpen(disk, read_only, long_bits))

\* any use of the freed structure sif_open returned
UseFreedHandle ==
  /\ handle = "freed" /\ ops <= MaxOps /\ Defined
  /\ handle' \in {"freed", "crashed"}
  /\ ops' = ops + 1
  /\ last_op' = [name |-> "use_freed", ret |-> 0, out |-> <<>>, error |-> SIF_ERROR_NONE,
                 before |-> SIF_ERROR_NONE, ub |-> TRUE]
  /\ UNCHANGED <<long_bits, native_endian, file, disk, error_free>>

\* sif_close once its call of sif_flush has left w: everything is freed, and
\* -1 is returned when the error field is set
CloseAfterFlush(w) ==
  /\ ops' = ops + 1
  /\ disk' = w.d
  /\ file' = NoFile
  /\ \/ /\ handle' = "none"
        /\ last_op' = [name |-> "close", ret |-> IF w.f.error # 0 THEN -1 ELSE 0,
                       out |-> <<>>, error |-> w.f.error,
                       before |-> file.error, ub |-> w.ub]
     \/ /\ w.ub /\ handle' = "crashed"
        /\ last_op' = [name |-> "close", ret |-> 0, out |-> <<>>,
                       error |-> w.f.error, before |-> file.error, ub |-> TRUE]
  /\ error_free' = (error_free /\ w.f.error = SIF_ERROR_NONE)
  /\ UNCHANGED <<long_bits, native_endian>>

Close == handle = "open" /\ ops < MaxOps /\ Defined /\ CloseAfterFlush(SifFlush(World))

Flush == handle = "open" /\ ops < MaxOps /\ Defined /\ Return(SifFlush(World), "flush", 0, <<>>)

Consolidate ==
  handle = "open" /\ ops < MaxOps /\ Defined /\ Return(SifConsolidate(World), "consolidate", 0, <<>>)

Defragment ==
  handle = "open" /\ ops < MaxOps /\ Defined /\ Return(SifDefragment(World), "defragment", 0, <<>>)

SetTileSlice ==
  /\ handle = "open" /\ ops < MaxOps /\ Defined
  /\ \E c \in TileCoords(file), band \in BandArgs(file), buffer \in SliceBuffers(file) :
       Return(SifSetTileSlice(World, buffer, c[1], c[2], band), "set_tile_slice", 0, <<>>)

GetTileSlice ==
  /\ handle = "open" /\ ops < MaxOps /\ Defined
  /\ \E c \in TileCoords(file), band \in BandArgs(file) :
       LET r == SifGetTileSlice(World, Zeros(SliceBytes(file)), c[1], c[2], band)
       IN Return(r.w, "get_tile_slice", 0, r.buf)

FillTileSlice ==
  /\ handle = "open" /\ ops < MaxOps /\ Defined
  /\ \E c \in TileCoords(file), band \in BandArgs(file), value \in FillValues(file) :
       Return(SifFillTileSlice(World, c[1], c[2], band, value), "fill_tile_slice", 0, <<>>)

FillTiles ==
  /\ handle = "open" /\ ops < MaxOps /\ Defined
  /\ \E band \in BandArgs(file), value \in FillValues(file) :
       Return(SifFillTiles(World, band, value), "fill_tiles", 0, <<>>)

\* sif_set_raster over the whole image, or over a window one unit too wide
SetRaster ==
  /\ handle = "open" /\ ops < MaxOps /\ Defined
  /\ \E band \in BandArgs(file), data \in RasterBuffers(file), extra \in {0, 1} :
       Return(SifSetRaster(World, data, 0, 0, file.hd.width + extra, file.hd.height, band),
              "set_raster", 0, <<>>)

GetRaster ==
  /\ handle = "open" /\ ops < MaxOps /\ Defined
  /\ \E band \in BandArgs(file), extra \in {0, 1} :
       LET n == file.hd.width * file.hd.height * file.hd.data_unit_size
           r == SifGetRaster(World, Zeros(n), 0, 0, file.hd.width + extra,
                             file.hd.height, band)
       IN Return(r.w, "get_raster", 0, r.buf)

SetMetaData ==
  /\ handle = "open" /\ ops < MaxOps /\ Defined
  /\ \E key \in MetaKeys, str \in MetaStrings :
       Return(SifSetMetaData(World, key, str), "set_meta_data", 0, <<>>)

SetMetaDataBinary ==
  /\ handle = "open" /\ ops < MaxOps /\ Defined
  /\ \E key \in MetaKeys, value \in MetaValues :
       Return(SifSetMetaDataBinary(World, key, value, Len(value)),
              "set_meta_data_binary", 0, <<>>)

GetMetaDataBinary ==
  /\ handle = "open" /\ ops < MaxOps /\ Defined
  /\ \E key \in MetaKeys :
       LET r == SifGetMetaDataBinary(World, key)
       IN Return(r.w, "get_meta_data_binary", r.n_bytes, r.value)

RemoveMetaDataItem ==
  /\ handle = "open" /\ ops < MaxOps /\ Defined
  /\ \E key \in MetaKeys :
       Return(SifRemoveMetaDataItem(World, key), "remove_meta_data_item", 0, <<>>)

\* sif_is_slice_shallow_uniform with a buffer of MaxByte bytes for the value
IsSliceShallowUniform ==
  /\ handle = "open" /\ ops < MaxOps /\ Defined
  /\ \E c \in TileCoords(file), band \in BandArgs(file) :
       LET r == SifIsSliceShallowUniform(World, c[1], c[2], band,
                  [i \in 1..file.hd.data_unit_size |-> MaxByte])
       IN Return(r.w, "is_slice_shallow_uniform", r.ret, r.value)

\* sif_is_shallow_uniform of the whole image or of its first pixel
IsShallowUniform ==
  /\ handle = "open" /\ ops < MaxOps /\ Defined
  /\ \E band \in BandArgs(file), whole \in {0, 1} :
       LET r == SifIsShallowUniform(World, 0, 0,
                  IF whole = 1 THEN file.hd.width ELSE 1,
                  IF whole = 1 THEN file.hd.height ELSE 1, band,
                  [i \in 1..file.hd.data_unit_size |-> MaxByte])
       IN Return(r.w, "is_shallow_uniform", r.ret, r.value)

GetMetaData ==
  /\ handle = "open" /\ ops < MaxOps /\ Defined
  /\ \E key \in MetaKeys :
       LET r == SifGetMetaData(World, key)
       IN Return(r.w, "get_meta_data", IF r.found THEN 1 ELSE 0, r.value)

\* sif_set_intrinsic_write, sif_unset_intrinsic_write, sif_set_defragment,
\* sif_unset_defragment, sif_set_consolidate, sif_unset_consolidate
SetFlag ==
  /\ handle = "open" /\ ops < MaxOps /\ Defined
  /\ \E name \in {"intrinsic_write", "defragment", "consolidate"}, v \in {0, 1} :
       Return(IF CheckFileFails(file) THEN SetErr(World, SIF_ERROR_INCOMPATIBLE_VERSION)
              ELSE [World EXCEPT !.f.hd[name] = v],
              "set_flag", 0, <<>>)

UseFileFormatVersion ==
  /\ handle = "open" /\ ops < MaxOps /\ Defined
  /\ \E version \in {0, 1, 3} :
       Return(SifUseFileFormatVersion(World, version), "use_file_format_version", 0, <<>>)

SetUserDataType ==
  /\ handle = "open" /\ ops < MaxAttrOps /\ Defined
  /\ \E user_data_type \in {7} :
       Return(SifSetUserDataType(World, user_data_type), "set_user_data_type", 0,
              user_data_type)

SimpleSetEndian ==
  /\ handle = "open" /\ ops < MaxAttrOps /\ Defined
  /\ \E endian \in {0, 1, 2} :
       Return(SifSimpleSetEndian(World, endian), "simple_set_endian", 0, endian)

SimpleSetDataType ==
  /\ handle = "open" /\ ops < MaxAttrOps /\ Defined
  /\ \E data_type_code \in {3, 10} :
       Return(SifSimpleSetDataType(World, data_type_code), "simple_set_data_type", 0,
              data_type_code)

\* sif_simple_create; a data type code out of range or arguments sif_create
\* refuses give a null pointer
SimpleCreate ==
  /\ handle = "none" /\ ops < MaxSimpleOps /\ Defined
  /\ \E g \in SimpleGeometries, simple_data_type \in SimpleDataTypes :
       IF SimpleCreateArgsOk(g, simple_data_type)
         THEN Return(SifSimpleCreate(g, simple_data_type, native_endian),
                     "simple_create", 1, simple_data_type)
         ELSE /\ ops' = ops + 1
              /\ last_op' = [name |-> "simple_create", ret |-> 0, out |-> simple_data_type,
                             error |-> SIF_ERROR_NONE, before |-> SIF_ERROR_NONE,
                             ub |-> FALSE]
              /\ error_free' = FALSE
              /\ UNCHANGED <<long_bits, native_endian, handle, file, disk>>

\* sif_simple_set_raster of the whole image
SimpleSetRaster ==
  /\ handle = "open" /\ ops < MaxSimpleOps /\ Defined
  /\ \E band \in BandArgs(file), data \in SimpleRasters(file) :
       Return(SifSimpleSetRaster(World, data, 0, 0, file.hd.width, file.hd.height, band,
                                 native_endian),
              "simple_set_raster", 0, data)

\* sif_simple_get_raster of the whole image
SimpleGetRaster ==
  /\ handle = "open" /\ ops < MaxSimpleOps /\ Defined
  /\ \E band \in BandArgs(file) :
       LET r == SifSimpleGetRaster(World,
                  Zeros(file.hd.width * file.hd.height * file.hd.data_unit_size),
                  0, 0, file.hd.width, file.hd.height, band, native_endian)
       IN Return(r.w, "simple_get_raster", 0, r.buf)

SimpleFillTiles ==
  /\ handle = "open" /\ ops < MaxSimpleOps /\ Defined
  /\ \E band \in BandArgs(file), value \in SimpleUnits(file) :
       Return(SifSimpleFillTiles(World, band, value, native_endian),
              "simple_fill_tiles", 0, value)

\* the caller resets the error field of the handle
ClearError ==
  /\ handle = "open" /\ ops < MaxOps /\ Defined /\ file.error # 0
  /\ Return(SetErr(World, SIF_ERROR_NONE), "clear_error", 0, <<>>)

\* the file at the path comes from another program or a later library: its
\* header carries another magic number or a later version
ForeignHeader ==
  /\ handle = "none" /\ disk.exists /\ ops < MaxOps /\ Defined
  /\ \/ \E v \in ForeignVersions : disk' = [disk EXCEPT !.hdr.version = Int32ToPackedBytes(v)]
     \/ disk' = [disk EXCEPT !.hdr.magic_number = ForeignMagic]
  /\ ops' = ops + 1
  /\ last_op' = [name |-> "foreign", ret |-> 0, out |-> <<>>, error |-> SIF_ERROR_NONE,
                 before |-> SIF_ERROR_NONE, ub |-> FALSE]
  /\ UNCHANGED <<long_bits, native_endian, handle, file, error_free>>

Next ==
  \/ Create \/ Open \/ UseFreedHandle \/ Close \/ Flush \/ Consolidate \/ Defragment
  \/ SetTileSlice \/ GetTileSlice \/ FillTileSlice \/ FillTiles
  \/ SetRaster \/ GetRaster
  \/ SetMetaData \/ SetMetaDataBinary \/ GetMetaDataBinary \/ RemoveMetaDataItem
  \/ SetFlag \/ UseFileFormatVersion \/ ClearError \/ ForeignHeader
  \/ SetUserDataType \/ SimpleSetEndian \/ SimpleSetDataType
  \/ GetMetaData \/ IsSliceShallowUniform \/ IsShallowUniform

Spec == Init /\ [][Next]_vars

\* The simple interface on either kind of host: a file is made by
\* sif_simple_create, may be declared to be of the other byte order, and is
\* written and read through the simple interface.
InitSimple ==
  /\ long_bits \in {32, 64}
  /\ native_endian \in {SIF_SIMPLE_LITTLE_ENDIAN, SIF_SIMPLE_BIG_ENDIAN}
  /\ handle = "none"
  /\ file = NoFile
  /\ disk = NoDisk
  /\ last_op = [name |-> "init", ret |-> 0, out |-> <<>>, error |-> SIF_ERROR_NONE,
                before |-> SIF_ERROR_NONE, ub |-> FALSE]
  /\ ops = 0
  /\ error_free = TRUE

NextSimple ==
  \/ SimpleCreate \/ SimpleSetEndian \/ SimpleSetRaster \/ SimpleGetRaster
  \/ SimpleFillTiles

SimpleSpec == InitSimple /\ [][NextSimple]_vars

----------------------------------------------------------------------------
(* The internal functions that compute on a buffer alone, called on their
   own: the arguments are drawn from bounded sets and the call is recorded
   in last_op with its arguments (out) and its result (ret). *)

\* the arguments of _sif_is_uniform: a tile of up to MaxTileSide units a
\* side, units of up to MaxUnitSize bytes, an extent inside the tile, and
\* every buffer of one slice
IsUniformArgs ==
  UNION { [tile_width : {tw}, tile_height : {th}, data_unit_size : {dus},
           extentX : 1..tw, extentY : 1..th, data : [1..(tw * th * dus) -> Bytes]] :
            tw \in 1..MaxTileSide, th \in 1..MaxTileSide, dus \in 1..MaxUnitSize }

IsUniformCall ==
  /\ handle = "none" /\ ops < MaxInternalOps
  /\ \E a \in IsUniformArgs :
       last_op' = [name |-> "is_uniform",
                   ret |-> IF IsUniform(a, a.data, a.extentX, a.extentY) THEN 1 ELSE 0,
                   out |-> a, error |-> SIF_ERROR_NONE, before |-> SIF_ERROR_NONE,
                   ub |-> FALSE]
  /\ ops' = ops + 1
  /\ UNCHANGED <<long_bits, native_endian, handle, file, disk, error_free>>

\* the arguments of _sif_swap_bytes: every buffer of up to MaxElems elements
\* of 2, 4 or 8 bytes
SwapBytesArgs ==
  UNION { [elem_size : {elem_size}, buffer : [1..(n * elem_size) -> Bytes]] :
            elem_size \in {2, 4, 8}, n \in 1..MaxElems }

SwapBytesCall ==
  /\ handle = "none" /\ ops < MaxInternalOps
  /\ \E a \in SwapBytesArgs :
       last_op' = [name |-> "swap_bytes", ret |-> 0,
                   out |-> [elem_size |-> a.elem_size, buffer |-> a.buffer,
                            swapped |-> SwapBytesFrom(a.buffer, 0, Len(a.buffer),
                                                      a.elem_size)],
                   error |-> SIF_ERROR_NONE, before |-> SIF_ERROR_NONE, ub |-> FALSE]
  /\ ops' = ops + 1
  /\ UNCHANGED <<long_bits, native_endian, handle, file, disk, error_free>>

NextInternal == IsUniformCall \/ SwapBytesCall

InternalSpec == Init /\ [][NextInternal]_vars

----------------------------------------------------------------------------
(* Images of several bands: tile slices are written, filled and read in
   images whose band count leaves 3 and 5 flags in the last flag
   byte. *)

\* one tile of two pixels, 3 or 5 bands
ManyBandGeometries ==
  { [width |-> 2, height |-> 1, bands |-> bands, data_unit_size |-> 1,
     user_data_type |-> 0, consolidate |-> 1, defragment |-> 1,
     tile_width |-> 2, tile_height |-> 1, intrinsic_write |-> 1, filename |-> 1] :
       bands \in {3, 5} }

CreateManyBands ==
  /\ handle = "none" /\ ops < MaxOps /\ Defined
  /\ \E g \in ManyBandGeometries : Return(SifCreate(g), "create", 1, g)

NextBands ==
  \/ CreateManyBands \/ SetTileSlice \/ GetTileSlice \/ FillTileSlice \/ FillTiles

BandsSpec == Init /\ [][NextBands]_vars

----------------------------------------------------------------------------
(* Properties.  Several are stated over call sequences that start in a
   reachable state: the calls are applied as operators to the state. *)

\* a handle the caller can go on using
Usable == handle = "open" /\ Defined

\* sif_close followed by sif_open of the same path: what sif_open returns
Reopened(w, read_only) == SifOpen(SifFlush(w).d, read_only, long_bits)

\* sif_set_raster(B, 0, 0, width, height, b) for each band b from band on
RECURSIVE SetRasterBands(_, _, _)
SetRasterBands(w, B, band) ==
  IF band >= w.f.hd.bands THEN w
  ELSE SetRasterBands(SifSetRaster(w, B, 0, 0, w.f.hd.width, w.f.hd.height, band),
                      B, band + 1)

\* sif_get_raster(0, 0, width, height, band) into a zeroed buffer
WholeRaster(w, band) ==
  SifGetRaster(w, Zeros(w.f.hd.width * w.f.hd.height * w.f.hd.data_unit_size),
               0, 0, w.f.hd.width, w.f.hd.height, band).buf

RasterRoundTrip(r, B) ==
  /\ r.ret = "handle"
  /\ \A band \in 0..(r.w.f.hd.bands - 1) : WholeRaster(r.w, band) = B

\* C1: on a handle fresh from sif_create, for every buffer B filling the
\* image, sif_set_raster of B over the whole image for each band, sif_close,
\* sif_open and sif_get_raster of the whole image return exactly B for each band.
C1_RasterRoundTrip ==
  (handle = "open" /\ last_op.name = "create") =>
     \A B \in RasterBuffers(file) :
        RasterRoundTrip(Reopened(SetRasterBands(World, B, 0), 1), B)

\* the block map of the handle f is consistent: a tile with a block is the
\* tile its block names, a block in use names a tile that holds it, and
\* every block index is below n_tiles
BlockMapConsistent(f) ==
  /\ \A t \in DOMAIN f.tiles :
        ~NoBlock(f.tiles[t]) =>
           /\ BlockIndexOk(f, f.tiles[t])
           /\ f.blocks_to_tiles[f.tiles[t].block_num] = t
  /\ \A b \in DOMAIN f.blocks_to_tiles :
        f.blocks_to_tiles[b] # -1 =>
           /\ f.blocks_to_tiles[b] \in DOMAIN f.tiles
           /\ f.tiles[f.blocks_to_tiles[b]].block_num = b
           /\ f.tiles[f.blocks_to_tiles[b]].block_num_hi = 0

\* C2: in every state reached by calls none of which failed, the block map
\* of the open handle is consistent (tiles and blocks name each other, no
\* block is shared, every block index is below n_tiles).
C2_BlockMapConsistent ==
  (handle = "open" /\ error_free) => BlockMapConsistent(file)

\* some uniform flag of the bands of tile t is clear
SomeBandNotUniform(f, t) ==
  \E band \in 0..(f.hd.bands - 1) : ~BandOfTileIsUniformShallow(f, t, band)

\* C3: after every completed call of an error-free history, a tile has a
\* block exactly when one of its band flags is clear, and no block is held
\* for a tile whose band flags are all set.
C3_BlockIffNotUniform ==
  (handle = "open" /\ error_free) =>
     \A t \in DOMAIN file.tiles :
        /\ ~NoBlock(file.tiles[t]) <=> SomeBandNotUniform(file, t)
        /\ ~SomeBandNotUniform(file, t) =>
              \A b \in DOMAIN file.blocks_to_tiles : file.blocks_to_tiles[b] # t

\* the tiles of f that hold a block
LiveTiles(f) == {t \in DOMAIN f.tiles : ~NoBlock(f.tiles[t])}

\* blocks_to_tiles[0..k) lists the k tiles holding a block in strictly
\* increasing order and blocks_to_tiles[k..n_tiles) is -1
Compact(f) ==
  LET k == Cardinality(LiveTiles(f))
  IN /\ \A b \in 0..(k - 1) : f.blocks_to_tiles[b] \in LiveTiles(f)
     /\ \A b1, b2 \in 0..(k - 1) :
           b1 < b2 => f.blocks_to_tiles[b1] < f.blocks_to_tiles[b2]
     /\ \A b \in k..(f.hd.n_tiles - 1) : f.blocks_to_tiles[b] = -1

MetaDataReadsBack(r, key, value) ==
  /\ r.ret = "handle"
  /\ SifGetMetaDataBinary(r.w, key).found
  /\ SifGetMetaDataBinary(r.w, key).value = value
  /\ SifGetMetaDataBinary(r.w, key).n_bytes = Len(value)

\* C5: on a read-write handle, after any calls of sif_set_meta_data and
\* sif_set_meta_data_binary, a value written under a key (new or existing,
\* of the same or another length, with NUL bytes, of length zero) is what
\* sif_get_meta_data_binary returns after flush, close and reopen.
C5_MetaDataPersists ==
  (Usable /\ file.read_only = 0 /\ error_free) =>
     \A key \in MetaKeys, value \in MetaValues :
        MetaDataReadsBack(
          Reopened(SifSetMetaDataBinary(World, key, value, Len(value)), 1),
          key, value)

\* a call made with the error field set (world a) has done exactly what the
\* same call does with the field at zero (world b): the worlds differ at most
\* in the error field, which holds the error of this call if it failed and
\* its old value otherwise
RunsDespiteError(a, b) ==
  a = [b EXCEPT !.f.error = IF @ # SIF_ERROR_NONE THEN @ ELSE file.error]

\* the same for a call that fills a buffer of the caller: the buffer is
\* filled alike
ReadsDespiteError(a, b) ==
  a = [b EXCEPT !.w.f.error = IF @ # SIF_ERROR_NONE THEN @ ELSE file.error]

WholeBuffer(f) == Zeros(f.hd.width * f.hd.height * f.hd.data_unit_size)

LeftUntouched(a) ==
  /\ a.f.tiles = file.tiles
  /\ a.f.blocks_to_tiles = file.blocks_to_tiles
  /\ a.d = disk

ValidTileCoords(f) ==
  {c \in TileCoords(f) :
     c[1] < f.hd.n_tiles_across /\ (f.hd.n_tiles_across * c[2]) + c[1] < f.hd.n_tiles}

TileNum(f, c) == (f.hd.n_tiles_across * c[2]) + c[1]

\* a slice buffer that is not uniform over the part of tile c inside the image
NonUniformSlice(f, c, buffer) ==
  ~IsUniform(f.hd, buffer,
             MIN(f.hd.tile_width, f.hd.width - c[1] * f.hd.tile_width),
             MIN(f.hd.tile_height, f.hd.height - c[2] * f.hd.tile_height))

\* sif_set_tile_slice of the same buffer for each band of tile c from band on
RECURSIVE SetSliceBands(_, _, _, _)
SetSliceBands(w, buffer, c, band) ==
  IF band >= w.f.hd.bands THEN w
  ELSE SetSliceBands(SifSetTileSlice(w, buffer, c[1], c[2], band), buffer, c, band + 1)

\* w1 is the world after a non-uniform slice was written to band of the fully
\* uniform tile c: the tile took a free block, the slice reads back, and
\* once every band is written uniform again a flush gives the block back
\* (block k is free again, or was handed to another tile by the defragmenter)
DemotedAndRepromoted(w1, buffer, c, band) ==
  LET t == TileNum(file, c)
      k == w1.f.tiles[t].block_num
      w2 == SifFlush(SetSliceBands(w1, Zeros(SliceBytes(file)), c, 0))
  IN /\ ~NoBlock(w1.f.tiles[t])
     /\ BlockIndexOk(w1.f, w1.f.tiles[t])
     /\ file.blocks_to_tiles[k] = -1
     /\ w1.f.blocks_to_tiles[k] = t
     /\ SifGetTileSlice(w1, Zeros(SliceBytes(file)), c[1], c[2], band).buf = buffer
     /\ NoBlock(w2.f.tiles[t])
     /\ w2.f.blocks_to_tiles[k] # t

\* C7: with consolidate enabled and intrinsic_write set or unset, a
\* non-uniform slice written to a fully uniform tile gives the tile a free
\* block and reads back; writing every band uniform again and flushing takes
\* the block away again.
C7_DemoteRepromote ==
  (Usable /\ file.read_only = 0 /\ error_free /\ file.hd.consolidate # 0) =>
     \A intrinsic_write \in {0, 1}, c \in ValidTileCoords(file),
        band \in 0..(file.hd.bands - 1), buffer \in SliceBuffers(file) :
        (NoBlock(file.tiles[TileNum(file, c)]) /\ NonUniformSlice(file, c, buffer)) =>
           DemotedAndRepromoted(
             SifSetTileSlice([World EXCEPT !.f.hd.intrinsic_write = intrinsic_write],
                             buffer, c[1], c[2], band),
             buffer, c, band)

\* sif_fill_tiles(band, values[band]) for every band from band on
RECURSIVE FillBands(_, _, _)
FillBands(w, values, band) ==
  IF band >= w.f.hd.bands THEN w
  ELSE FillBands(SifFillTiles(w, band, values[band]), values, band + 1)

\* in world w every tile is uniform in all bands without a block, no block is
\* in use, and every pixel of each band reads back as the value of the band
FilledWith(w, values) ==
  /\ \A t \in DOMAIN w.f.tiles :
        /\ ~SomeBandNotUniform(w.f, t)
        /\ NoBlock(w.f.tiles[t])
  /\ \A b \in DOMAIN w.f.blocks_to_tiles : w.f.blocks_to_tiles[b] = -1
  /\ \A band \in 0..(w.f.hd.bands - 1) :
        WholeRaster(w, band) = Repeat(values[band], w.f.hd.width * w.f.hd.height)

\* C8: from any state of a read-write handle, sif_fill_tiles for every band
\* leaves every tile uniform without a block, the block map empty, and every
\* pixel of each band equal to the value given for the band.
C8_FillTilesAllBands ==
  (Usable /\ file.read_only = 0) =>
     \A values \in [0..(file.hd.bands - 1) -> FillValues(file)] :
        FilledWith(FillBands(World, values, 0), values)

\* the length of the file of world w
FileLength(w) == w.f.base_location + Len(w.d.tail)

\* the sum over the meta-data entries from the k-th on of
\* 4 + key_length + 4 + value_length
RECURSIVE MetaDataSize(_, _)
MetaDataSize(md, k) ==
  IF k > Len(md) THEN 0
  ELSE 4 + md[k].key_length + 4 + md[k].value_length + MetaDataSize(md, k + 1)

\* base_location + (last_used_block + 1) * tile_bytes + metadata_bytes
DataAndMetaDataEnd(f) ==
  f.base_location + ((LastUsedBlockIndex(f) + 1) * f.hd.tile_bytes)
    + MetaDataSize(f.meta_data, 1)

BadMagic(d) == d.hdr.magic_number # SIF_MAGIC_NUMBER

TooNew(d) ==
  \/ PackedBytesToInt32(d.hdr.version, long_bits).hi # 0
  \/ PackedBytesToInt32(d.hdr.version, long_bits).lo > SIF_VERSION

C11_NullOnStructuralFailure ==
  (last_op.name \in {"open", "create"} /\ Defined) =>
     \/ handle = "open" /\ last_op.ret = 1 /\ file.error = SIF_ERROR_NONE
     \/ handle = "none" /\ last_op.ret = 0

\* the arguments g of sif_create hold a dimension below 1 or no filename
BadCreateArgs(g) ==
  \/ g.width < 1 \/ g.height < 1 \/ g.bands < 1
  \/ g.tile_width < 1 \/ g.tile_height < 1 \/ g.data_unit_size < 1
  \/ g.filename = 0

\* C12: sif_create with width, height, bands, tile_width, tile_height or
\* data_unit_size below 1, or with a null filename, returns null and leaves
\* no handle.
C12_CreateRejectsBadArgs ==
  (last_op.name = "create" /\ BadCreateArgs(last_op.out)) =>
     /\ last_op.ret = 0
     /\ handle = "none" /\ file = NoFile

\* sif_create was called without a filename, all dimensions being valid, on
\* a path where a file exists, and returned null
C12_Witness ==
  /\ last_op.name = "create" /\ last_op.out.filename = 0
  /\ last_op.out.width >= 1 /\ last_op.out.tile_height >= 1
  /\ last_op.ret = 0 /\ handle = "none" /\ disk.exists

\* the windows (x, y, w, h) that lie inside the image
ValidWindows(f) ==
  {win \in (0..(f.hd.width - 1)) \X (0..(f.hd.height - 1))
             \X (1..f.hd.width) \X (1..f.hd.height) :
     win[1] + win[3] <= f.hd.width /\ win[2] + win[4] <= f.hd.height}

\* a caller's buffer for a window of w by h units, every byte MaxByte
Filled(f, w, h) == [i \in 1..(w * h * f.hd.data_unit_size) |-> MaxByte]

Geometry(f) ==
  <<f.hd.width, f.hd.height, f.hd.bands, f.hd.tile_width, f.hd.tile_height,
    f.hd.data_unit_size>>

EndsInNul(f, q) ==
  /\ f.meta_data[q].value_length > 0
  /\ f.meta_data[q].value[f.meta_data[q].value_length] = 0

\* C16: sif_get_meta_data(key) returns a pointer that is not null exactly
\* when the key exists and its value ends in a NUL byte; for such a value it
\* leaves the error field at SIF_ERROR_NONE, and for a value without the
\* final NUL it returns null and sets SIF_ERROR_META_DATA_VALUE.
C16_GetMetaDataString ==
  (Usable /\ ~CheckFileFails(file) /\ file.error = SIF_ERROR_NONE) =>
     \A key \in MetaKeys :
        LET q == GetMetaDataPair(file, key)
            r == SifGetMetaData(World, key)
        IN /\ r.found <=> (q # 0 /\ EndsInNul(file, q))
           /\ (q # 0 /\ EndsInNul(file, q)) => r.w.f.error = SIF_ERROR_NONE
           /\ (q # 0 /\ ~EndsInNul(file, q)) =>
                 (~r.found /\ r.w.f.error = SIF_ERROR_META_DATA_VALUE)

\* the calls that only read
ReadCalls ==
  {"get_tile_slice", "get_raster", "is_slice_shallow_uniform", "is_shallow_uniform",
   "get_meta_data", "get_meta_data_binary"}

\* C17: sif_get_tile_slice, sif_get_raster, sif_is_slice_shallow_uniform,
\* sif_is_shallow_uniform, sif_get_meta_data and sif_get_meta_data_binary
\* leave the tile records (flags, uniform values, block numbers), the block
\* map, the dirty flags, the meta-data and every byte of the file as they
\* were.
C17_ReadsLeaveState ==
  [][(handle = "open" /\ handle' = "open" /\ last_op'.name \in ReadCalls) =>
       /\ file'.tiles = file.tiles
       /\ file'.blocks_to_tiles = file.blocks_to_tiles
       /\ file'.dirty_tiles = file.dirty_tiles
       /\ file'.meta_data = file.meta_data
       /\ file'.hd = file.hd
       /\ disk' = disk
     ]_vars

\* sif_is_shallow_uniform has answered no for a file that holds a block and
\* a meta-data pair
C17_Witness ==
  /\ handle = "open" /\ Defined
  /\ last_op.name = "is_shallow_uniform" /\ last_op.ret = 0
  /\ last_op.error = SIF_ERROR_NONE
  /\ \E t \in DOMAIN file.tiles : ~NoBlock(file.tiles[t])
  /\ Len(file.meta_data) > 0
  /\ Len(disk.tail) > 0

\* C18: on a read-only handle sif_set_tile_slice, sif_fill_tile_slice and
\* sif_fill_tiles, given a tile of the image, a band of the image and a
\* buffer, set the error field to SIF_ERROR_INVALID_FILE_MODE and change
\* nothing else: no tile record, block-map entry, dirty flag or file byte.
C18_ReadOnlyRejectsWrites ==
  (Usable /\ file.read_only # 0) =>
     \A band \in 0..(file.hd.bands - 1) :
        /\ \A c \in ValidTileCoords(file) :
             /\ \A buffer \in SliceBuffers(file) :
                  SifSetTileSlice(World, buffer, c[1], c[2], band)
                    = SetErr(World, SIF_ERROR_INVALID_FILE_MODE)
             /\ \A value \in FillValues(file) :
                  SifFillTileSlice(World, c[1], c[2], band, value)
                    = SetErr(World, SIF_ERROR_INVALID_FILE_MODE)
        /\ \A value \in FillValues(file) :
             SifFillTiles(World, band, value) = SetErr(World, SIF_ERROR_INVALID_FILE_MODE)

\* sif_fill_tiles has been refused on a handle opened read-only
C18_Witness ==
  /\ Usable /\ file.read_only # 0
  /\ last_op.name = "fill_tiles" /\ last_op.error = SIF_ERROR_INVALID_FILE_MODE
  /\ last_op.before = SIF_ERROR_NONE

\* C15: sif_create honours its policy arguments: when it has returned a
\* handle, the header's consolidate, defragment and intrinsic_write flags
\* are the consolidate_on_close, defragment_on_close and intrinsic_write it
\* was called with.
C15_CreateHonoursPolicy ==
  (last_op.name = "create" /\ handle = "open") =>
     /\ file.hd.consolidate = last_op.out.consolidate
     /\ file.hd.defragment = last_op.out.defragment
     /\ file.hd.intrinsic_write = last_op.out.intrinsic_write

\* windows and bands handed to the raster calls, valid and invalid
WindowArgs(f) ==
  {<<x, y, w, h>> : x \in {-1, 0, 1}, y \in {-1, 0},
                    w \in {0, 1, f.hd.width + 1}, h \in {1, f.hd.height + 1}}
WindowBandArgs(f) == {-1, 0, f.hd.bands}

\* the error the first failing test of the window <<x, y, w, h>> and the
\* band sets, SIF_ERROR_NONE when all pass
WindowError(f, a, band) ==
  IF a[1] < 0 \/ a[2] < 0 THEN SIF_ERROR_INVALID_COORD
  ELSE IF a[3] < 1 \/ a[4] < 1 \/ a[1] + a[3] > f.hd.width \/ a[2] + a[4] > f.hd.height
    THEN SIF_ERROR_INVALID_REGION_SIZE
  ELSE IF band < 0 \/ band >= f.hd.bands THEN SIF_ERROR_INVALID_BAND
  ELSE SIF_ERROR_NONE

\* sif_set_raster and sif_get_raster, given the window a and the band, set
\* the error of the first failing test and change nothing else
RasterCallsRejected(a, band) ==
  WindowError(file, a, band) # SIF_ERROR_NONE =>
     /\ SifSetRaster(World, <<1>>, a[1], a[2], a[3], a[4], band)
          = SetErr(World, WindowError(file, a, band))
     /\ SifGetRaster(World, <<1>>, a[1], a[2], a[3], a[4], band)
          = [w |-> SetErr(World, WindowError(file, a, band)), buf |-> <<1>>]

\* C19: sif_set_raster and sif_get_raster validate their window before they
\* touch a tile: x < 0 or y < 0 sets SIF_ERROR_INVALID_COORD; otherwise
\* w < 1, h < 1, x + w > width or y + h > height sets
\* SIF_ERROR_INVALID_REGION_SIZE; otherwise a band outside 0..bands-1 sets
\* SIF_ERROR_INVALID_BAND; and nothing else of the file, of the handle or of
\* the caller's buffer is changed.
C19_RasterWindowValidated ==
  (Usable /\ ~CheckFileFails(file)) =>
     \A a \in WindowArgs(file), band \in WindowBandArgs(file) : RasterCallsRejected(a, band)

\* C20: sif_flush, called on a handle whose error field is clear, returns a
\* non-zero value exactly when the flush has left the error field clear,
\* on read-write and on read-only handles.
C20_FlushReportsSuccess ==
  (last_op.name = "flush" /\ Usable /\ last_op.before = SIF_ERROR_NONE) =>
     (last_op.ret # 0 <=> last_op.error = SIF_ERROR_NONE)

\* the slice buffers that are uniform over the part of tile c inside the image
UniformSlices(f, c) == {buffer \in SliceBuffers(f) : ~NonUniformSlice(f, c, buffer)}

\* w2 is the world after the write that led to w1 was made again: the record
\* of tile t is the one the first write left, and a tile that had no block
\* before the writes has none
SameRecordAgain(w1, w2, t) ==
  /\ ~w2.ub
  /\ w2.f.error = file.error
  /\ w2.f.tiles[t] = w1.f.tiles[t]
  /\ NoBlock(file.tiles[t]) => NoBlock(w2.f.tiles[t])

\* w1 is the world after sif_set_tile_slice(buffer, c, band)
SetAgain(w1, buffer, c, band) ==
  SameRecordAgain(w1, SifSetTileSlice(w1, buffer, c[1], c[2], band), TileNum(file, c))

\* w1 is the world after sif_fill_tile_slice(c, band, value)
FillAgain(w1, c, band, value) ==
  SameRecordAgain(w1, SifFillTileSlice(w1, c[1], c[2], band, value), TileNum(file, c))

CoveredTiles(f, win) ==
  {c \in ValidTileCoords(f) :
     /\ c[1] * f.hd.tile_width < win[1] + win[3]
     /\ (c[1] + 1) * f.hd.tile_width > win[1]
     /\ c[2] * f.hd.tile_height < win[2] + win[4]
     /\ (c[2] + 1) * f.hd.tile_height > win[2]}

\* the first tile of the window
FirstCovered(f, win) == <<win[1] \div f.hd.tile_width, win[2] \div f.hd.tile_height>>

\* the uniform value tile c stores for the band
StoredValue(f, c, band) ==
  UnitAt(f.tiles[TileNum(f, c)].uniform_pixel_values, band, f.hd.data_unit_size)

\* every tile of the window has the band's flag set and stores the value the
\* first tile stores
WindowShallowUniform(f, win, band) ==
  \A c \in CoveredTiles(f, win) :
     /\ BandOfTileIsUniformShallow(f, TileNum(f, c), band)
     /\ StoredValue(f, c, band) = StoredValue(f, FirstCovered(f, win), band)

\* r is what sif_is_shallow_uniform(win, band, out) gives
ShallowUniformAnswer(r, win, band) ==
  /\ r.w = World
  /\ r.ret = 1 <=> WindowShallowUniform(file, win, band)
  /\ r.ret \in {0, 1}
  /\ r.ret = 1 => r.value = StoredValue(file, FirstCovered(file, win), band)

\* C22: for a window inside the image and a band of the image,
\* sif_is_shallow_uniform returns true if and only if every tile that
\* intersects the window has the band's uniform flag set and stores for the
\* band the value the first covered tile stores; when it returns true the
\* caller's buffer holds that value; nothing of the handle or of the file is
\* changed.
C22_ShallowUniformOfWindow ==
  (Usable /\ ~CheckFileFails(file)) =>
     \A win \in ValidWindows(file), band \in 0..(file.hd.bands - 1) :
        ShallowUniformAnswer(
          SifIsShallowUniform(World, win[1], win[2], win[3], win[4], band,
                              Filled(file, 1, 1)),
          win, band)

\* sif_is_shallow_uniform has answered false for a band whose flag is set in
\* every tile: two tiles store different values
C22_Witness ==
  /\ Usable /\ last_op.name = "is_shallow_uniform" /\ last_op.ret = 0
  /\ last_op.error = SIF_ERROR_NONE
  /\ file.hd.bands = 1 /\ file.hd.n_tiles > 1
  /\ \A t \in DOMAIN file.tiles : BandOfTileIsUniformShallow(file, t, 0)

\* the units of a buffer, each with its bytes in the opposite order
Reversed(buffer, dus) ==
  [i \in 1..Len(buffer) |-> buffer[((i - 1) \div dus) * dus + dus - ((i - 1) % dus)]]

\* the whole image of band 0 as sif_get_raster reads it: the stored bytes
StoredRaster(w) ==
  SifGetRaster(w, Zeros(w.f.hd.width * w.f.hd.height * w.f.hd.data_unit_size),
               0, 0, w.f.hd.width, w.f.hd.height, 0).buf

\* w1 is the world after sif_simple_set_raster of data: the units are stored
\* in the declared order and sif_simple_get_raster gives data back
StoredInDeclaredOrder(w1, data) ==
  /\ w1.f.error = SIF_ERROR_NONE /\ ~w1.ub
  /\ StoredRaster(w1) =
       IF SIF_SIMPLE_ENDIAN(file.hd.user_data_type) # native_endian
         THEN Reversed(data, file.hd.data_unit_size)
         ELSE data
  /\ SifSimpleGetRaster(w1, Zeros(Len(data)), 0, 0, file.hd.width, file.hd.height, 0,
                        native_endian).buf = data

\* C23: on a simple file of a 2-, 4- or 8-byte type, sif_simple_set_raster
\* stores each data unit with its bytes in the declared order (reversed when
\* the declared order is not the host's, as given when it is), and
\* sif_simple_get_raster of the same window returns the buffer that was
\* written.
C23_EndianFidelity ==
  (Usable /\ ~CheckFileFails(file) /\ file.error = SIF_ERROR_NONE /\ file.read_only = 0
     /\ file.hd.data_unit_size \in {2, 4, 8}
     /\ SIF_SIMPLE_ENDIAN(file.hd.user_data_type)
          \in {SIF_SIMPLE_LITTLE_ENDIAN, SIF_SIMPLE_BIG_ENDIAN}) =>
     \A data \in SimpleRasters(file) :
        StoredInDeclaredOrder(
          SifSimpleSetRaster(World, data, 0, 0, file.hd.width, file.hd.height, 0,
                             native_endian),
          data)

\* w1 is the world after sif_simple_fill_tiles(band 0, value): the flag of the
\* band is set in every tile and every pixel reads as value
FilledThroughSimple(w1, value) ==
  /\ w1.f.error = SIF_ERROR_NONE /\ ~w1.ub
  /\ \A t \in DOMAIN w1.f.tiles : BandOfTileIsUniformShallow(w1.f, t, 0)
  /\ SifSimpleGetRaster(w1,
       Zeros(file.hd.width * file.hd.height * file.hd.data_unit_size),
       0, 0, file.hd.width, file.hd.height, 0, native_endian).buf
       = Repeat(value, file.hd.width * file.hd.height)

\* C26: sif_simple_fill_tiles(band, value) on a read-write simple file,
\* whatever byte order the file declares, leaves the band's uniform flag set
\* in every tile and every pixel of the band, read through
\* sif_simple_get_raster, equal to value.
C26_SimpleFillTilesFills ==
  (Usable /\ ~CheckFileFails(file) /\ file.error = SIF_ERROR_NONE /\ file.read_only = 0
     /\ SIF_SIMPLE_ENDIAN(file.hd.user_data_type)
          \in {SIF_SIMPLE_LITTLE_ENDIAN, SIF_SIMPLE_BIG_ENDIAN}) =>
     \A value \in SimpleUnits(file) :
        FilledThroughSimple(SifSimpleFillTiles(World, 0, value, native_endian), value)

\* versions sif_open of this library rejects or that are no version at all
UnwritableVersions == {-1, 0, SIF_VERSION + 1}

\* C24: sif_use_file_format_version with a version the library cannot write
\* (below 1, or above the library's own SIF_VERSION) sets the error field to
\* SIF_ERROR_CANNOT_WRITE_VERSION and changes nothing else, use_file_version
\* included.
C24_UnwritableVersionRefused ==
  Usable =>
     \A version \in UnwritableVersions :
        SifUseFileFormatVersion(World, version)
          = SetErr(World, SIF_ERROR_CANNOT_WRITE_VERSION)

\* the units of a slice of tile c that lie inside the image
UnitsInImage(f, c) ==
  {r * f.hd.tile_width + k :
     r \in 0..(MIN(f.hd.tile_height, f.hd.height - c[2] * f.hd.tile_height) - 1),
     k \in 0..(MIN(f.hd.tile_width, f.hd.width - c[1] * f.hd.tile_width) - 1)}

\* w1 is the world after sif_set_tile_slice(buffer, c, band): when the call
\* has set no error, sif_get_tile_slice gives the units of buffer back at
\* every position inside the image, and changes nothing
SliceReadsBack(w1, got, buffer, c) ==
  (w1.f.error = SIF_ERROR_NONE) =>
     /\ ~w1.ub
     /\ got.w = w1
     /\ \A j \in UnitsInImage(file, c) :
          UnitAt(got.buf, j, file.hd.data_unit_size)
            = UnitAt(buffer, j, file.hd.data_unit_size)

SetThenGet(w1, buffer, c, band) ==
  SliceReadsBack(w1, SifGetTileSlice(w1, Zeros(SliceBytes(file)), c[1], c[2], band),
                 buffer, c)

\* C25: after a sif_set_tile_slice that set no error, sif_get_tile_slice of
\* the same tile and band returns the written buffer at every position of
\* the tile inside the image, whether the slice was stored as a uniform value
\* or in a block (the writes are made from the states in which the model goes
\* on, ops < MaxOps); and in every state a band whose uniform flag is set
\* reads back as units_per_slice copies of its stored uniform value, whatever
\* the tile's block holds.
C25_TileSliceRoundTrip ==
  (Usable /\ ~CheckFileFails(file)) =>
     \A c \in ValidTileCoords(file), band \in 0..(file.hd.bands - 1) :
        /\ (file.read_only = 0 /\ file.error = SIF_ERROR_NONE /\ ops < MaxOps) =>
              \A buffer \in SliceBuffers(file) :
                 SetThenGet(SifSetTileSlice(World, buffer, c[1], c[2], band),
                            buffer, c, band)
        /\ BandOfTileIsUniformShallow(file, TileNum(file, c), band) =>
              SifGetTileSlice(World, Zeros(SliceBytes(file)), c[1], c[2], band).buf
                = Repeat(StoredValue(file, c, band), file.units_per_slice)

\* sif_get_tile_slice has read a slice that is not uniform from a block, in a
\* file one of whose tiles holds a block and has a band stored as a uniform
\* value
C25_Witness ==
  /\ Usable /\ last_op.name = "get_tile_slice" /\ last_op.error = SIF_ERROR_NONE
  /\ \E i, j \in DOMAIN last_op.out : last_op.out[i] # last_op.out[j]
  /\ \E t \in DOMAIN file.tiles, b \in 0..(file.hd.bands - 1) :
        ~NoBlock(file.tiles[t]) /\ BandOfTileIsUniformShallow(file, t, b)

\* the blocks no tile holds
FreeBlocks(f) == {i \in 0..(f.hd.n_tiles - 1) : f.blocks_to_tiles[i] = -1}

\* w1 is the world after a sif_set_tile_slice on tile t, which had no block:
\* if t has one now, it is the lowest block that was free, and every other
\* tile and every other block entry is as before
AllocatedFirstFit(w1, t) ==
  ~NoBlock(w1.f.tiles[t]) =>
     /\ FreeBlocks(file) # {}
     /\ w1.f.tiles[t].block_num \in FreeBlocks(file)
     /\ \A i \in FreeBlocks(file) : w1.f.tiles[t].block_num <= i
     /\ w1.f.blocks_to_tiles[w1.f.tiles[t].block_num] = t
     /\ \A u \in DOMAIN file.tiles \ {t} : w1.f.tiles[u] = file.tiles[u]
     /\ \A i \in DOMAIN file.blocks_to_tiles \ {w1.f.tiles[t].block_num} :
          w1.f.blocks_to_tiles[i] = file.blocks_to_tiles[i]

\* C27: when sif_set_tile_slice gives a block to a tile that had none, the
\* block is the lowest index i with blocks_to_tiles[i] = -1 before the call,
\* and no other tile's block is reassigned: the other tile records and the
\* other entries of blocks_to_tiles are unchanged (the writes are made from
\* the states in which the model goes on, ops < MaxOps).
C27_FirstFitAllocation ==
  (Usable /\ ~CheckFileFails(file) /\ file.read_only = 0 /\ ops < MaxOps) =>
     \A c \in ValidTileCoords(file), band \in 0..(file.hd.bands - 1) :
        NoBlock(file.tiles[TileNum(file, c)]) =>
           \A buffer \in SliceBuffers(file) :
              AllocatedFirstFit(SifSetTileSlice(World, buffer, c[1], c[2], band),
                                TileNum(file, c))

\* sif_set_tile_slice has given a tile block 1 while another tile held
\* block 0
C27_Witness ==
  /\ Usable /\ last_op.name = "set_tile_slice" /\ last_op.error = SIF_ERROR_NONE
  /\ \E t, u \in DOMAIN file.tiles :
        /\ t # u
        /\ file.tiles[t].block_num = 0 /\ file.blocks_to_tiles[0] = t
        /\ file.tiles[u].block_num = 1 /\ file.blocks_to_tiles[1] = u

\* the tile records of the file d are those of the handle f: uniform values,
\* flags and block number of every tile
TileHeadersOnDisk(f, d) ==
  d.tiles = [i \in 0..(f.hd.n_tiles - 1) |->
               [uniform_pixel_values |-> f.tiles[i].uniform_pixel_values,
                uniform_flags |-> f.tiles[i].uniform_flags,
                block_num |-> Int32ToPackedBytes(f.tiles[i].block_num)]]

\* the calls that change tile records
MutatingCalls ==
  {"set_tile_slice", "fill_tile_slice", "fill_tiles", "set_raster",
   "consolidate", "defragment"}

\* w1 is the world a call has left: if no error is set, the tile records on
\* disk are those of the handle
WrittenThrough(w1) ==
  (w1.f.error = SIF_ERROR_NONE /\ ~w1.ub) => TileHeadersOnDisk(w1.f, w1.d)

\* C28: after sif_set_tile_slice, sif_fill_tile_slice, sif_fill_tiles,
\* sif_set_raster, sif_consolidate or sif_defragment has returned with no
\* error set, the record of every tile in the file equals the record in
\* memory (uniform values, flags, block_num), no sif_flush being needed; the
\* same holds of a sif_consolidate and a sif_defragment made from any state
\* the model reaches with the error field clear.
C28_TileHeadersWrittenThrough ==
  Usable =>
    /\ (last_op.name \in MutatingCalls /\ last_op.error = SIF_ERROR_NONE)
          => TileHeadersOnDisk(file, disk)
    /\ file.error = SIF_ERROR_NONE =>
          WrittenThrough(SifConsolidate(World)) /\ WrittenThrough(SifDefragment(World))

\* sif_set_raster has returned with no error set and has left a tile with a
\* block and a band stored as a value other than zero
C28_Witness ==
  /\ Usable /\ last_op.name = "set_raster" /\ last_op.error = SIF_ERROR_NONE
  /\ file.read_only = 0
  /\ \E t \in DOMAIN file.tiles : ~NoBlock(file.tiles[t])
  /\ \E t \in DOMAIN file.tiles, b \in 0..(file.hd.bands - 1) :
        /\ BandOfTileIsUniformShallow(file, t, b)
        /\ StoredValue(file, <<t % file.hd.n_tiles_across, t \div file.hd.n_tiles_across>>, b)
             # Zeros(file.hd.data_unit_size)

\* C29: the header's n_keys is the number of pairs in the handle's meta-data
\* store, whatever calls of sif_set_meta_data, sif_set_meta_data_binary and
\* sif_remove_meta_data_item have been made.
C29_KeyCountMatchesStore ==
  Usable => file.hd.n_keys = Len(file.meta_data)

\* the pairs of the store f.meta_data whose key is not key
OtherPairs(f, key) ==
  {f.meta_data[k] : k \in {j \in 1..Len(f.meta_data) : f.meta_data[j].key # key}}

\* w1 is the world after value has been set for key in the present state:
\* sif_get_meta_data_binary returns value and its length, an existing key
\* leaves the number of pairs as it was, a new key adds one pair, and the
\* pairs of the other keys are unchanged
ValueReplaced(w1, key, value) ==
  /\ SifGetMetaDataBinary(w1, key).found
  /\ SifGetMetaDataBinary(w1, key).value = value
  /\ SifGetMetaDataBinary(w1, key).n_bytes = Len(value)
  /\ Len(w1.f.meta_data)
       = Len(file.meta_data) + (IF GetMetaDataPair(file, key) = 0 THEN 1 ELSE 0)
  /\ OtherPairs(w1.f, key) = OtherPairs(file, key)

\* C30: sif_set_meta_data and sif_set_meta_data_binary store the value given:
\* right after the call sif_get_meta_data_binary of the key returns the new
\* bytes and the new length, whether or not the key existed and whatever the
\* length of the value it held; the number of pairs grows by one for a new
\* key and is unchanged for an existing one, and no other pair changes.
C30_SetMetaDataReplaces ==
  (Usable /\ ~CheckFileFails(file)) =>
     \A key \in MetaKeys :
        /\ \A value \in MetaValues :
              ValueReplaced(SifSetMetaDataBinary(World, key, value, Len(value)),
                            key, value)
        /\ \A str \in MetaStrings :
              ValueReplaced(SifSetMetaData(World, key, str), key, str \o <<0>>)

\* values of the signed 32-bit range tried on the codec: its ends, -1, 0 and
\* the numbers next to them
CodecValues == {-2147483647 - 1, -2147483647, -2, -1, 0, 1, 255, 256, 2147483647}

\* C31: _sif_packed_bytes_to_int32 gives back the value
\* _sif_int32_to_packed_bytes was given, over the signed 32-bit range, on
\* the build at hand; and after sif_open has returned a handle, a tile whose
\* record in the file holds the bytes of -1 has block_num = -1, and the loop
\* that fills blocks_to_tiles has stored nothing outside the array.
C31_Int32CodecRoundTrips ==
  /\ \A v \in CodecValues :
        PackedBytesToInt32(Int32ToPackedBytes(v), long_bits) = [lo |-> v, hi |-> 0]
  /\ (last_op.name = "open" /\ last_op.ret = 1 /\ handle \in {"open", "crashed"}) =>
        /\ ~last_op.ub
        /\ \A t \in DOMAIN file.tiles :
              disk.tiles[t].block_num = Int32ToPackedBytes(-1) => NoBlock(file.tiles[t])

\* w1 is the world after a sif_set_tile_slice on tile t that set no error:
\* the dirty flag of t is set if intrinsic_write is off, in which case the
\* slice went to the tile's block, and is as it was if intrinsic_write is on;
\* no other tile's dirty flag changes
DirtyAfterSet(w1, t) ==
  w1.f.error = SIF_ERROR_NONE =>
     /\ ~w1.ub
     /\ \A u \in DOMAIN file.dirty_tiles \ {t} : w1.f.dirty_tiles[u] = file.dirty_tiles[u]
     /\ file.hd.intrinsic_write = 0 =>
           w1.f.dirty_tiles[t] = 1 /\ ~NoBlock(w1.f.tiles[t])
     /\ file.hd.intrinsic_write # 0 => w1.f.dirty_tiles[t] = file.dirty_tiles[t]

\* the tiles _sif_mark_uniform_tiles scans: dirty and holding a block
ScannedTiles(f) ==
  {i \in DOMAIN f.tiles : ~NoBlock(f.tiles[i]) /\ f.dirty_tiles[i] # 0}

\* w1 is the world after sif_consolidate: a tile that was not dirty or held
\* no block has its record and its dirty flag as before, and the dirty flag
\* of every tile scanned is clear
DirtyAfterConsolidate(w1) ==
  /\ \A i \in DOMAIN file.tiles \ ScannedTiles(file) :
        /\ w1.f.tiles[i] = file.tiles[i]
        /\ w1.f.dirty_tiles[i] = file.dirty_tiles[i]
  /\ \A i \in ScannedTiles(file) : w1.f.dirty_tiles[i] = 0

\* C32: sif_set_tile_slice sets the dirty flag of the tile exactly when it
\* writes the slice to a block with intrinsic_write off and never while
\* intrinsic_write is on; sif_consolidate scans only the tiles that are dirty
\* and hold a block, and clears the dirty flag of each tile it scans.
C32_DirtyTracking ==
  (Usable /\ ~CheckFileFails(file) /\ file.read_only = 0
     /\ file.error = SIF_ERROR_NONE) =>
     /\ ops < MaxOps =>
          \A c \in ValidTileCoords(file), band \in 0..(file.hd.bands - 1),
             buffer \in SliceBuffers(file) :
             DirtyAfterSet(SifSetTileSlice(World, buffer, c[1], c[2], band),
                           TileNum(file, c))
     /\ file.hd.consolidate # 0 => DirtyAfterConsolidate(SifConsolidate(World))

\* the units of the buffer of call a that lie inside its extent
UnitsOfExtent(a) ==
  {r * a.tile_width + k : r \in 0..(a.extentY - 1), k \in 0..(a.extentX - 1)}

\* C33: _sif_is_uniform answers true exactly when every data unit inside the
\* extent is byte for byte the first unit of the buffer, for units of one
\* byte, of two bytes and of more; the units outside the extent, which pad
\* the slice of a tile on the right or bottom edge, have no part in it.
C33_UniformTestOfExtent ==
  last_op.name = "is_uniform" =>
     (last_op.ret = 1
        <=> \A j \in UnitsOfExtent(last_op.out) :
               UnitAt(last_op.out.data, j, last_op.out.data_unit_size)
                 = UnitAt(last_op.out.data, 0, last_op.out.data_unit_size))

\* _sif_is_uniform has answered true for a slice of units of more than two
\* bytes whose extent is smaller than the tile and whose padding holds a
\* unit that differs from the first
C33_Witness ==
  /\ last_op.name = "is_uniform" /\ last_op.ret = 1
  /\ last_op.out.data_unit_size > 2
  /\ last_op.out.extentX < last_op.out.tile_width
  /\ last_op.out.extentY < last_op.out.tile_height
  /\ \E j \in 0..(last_op.out.tile_width * last_op.out.tile_height - 1) :
        UnitAt(last_op.out.data, j, last_op.out.data_unit_size)
          # UnitAt(last_op.out.data, 0, last_op.out.data_unit_size)

\* tile coordinates outside the grid of f: one step beyond it on each side
OutsideGrid(f) ==
  {<<-1, 0>>, <<0, -1>>, <<f.hd.n_tiles_across, 0>>,
   <<0, f.hd.n_tiles \div f.hd.n_tiles_across>>}

\* w1 is the world a call has left: the call has set SIF_ERROR_INVALID_TN,
\* has read nothing outside the handle's arrays and has changed nothing else
RejectedAsInvalidTile(w1) ==
  /\ w1.f.error = SIF_ERROR_INVALID_TN
  /\ ~w1.ub
  /\ w1.f = [file EXCEPT !.error = SIF_ERROR_INVALID_TN]
  /\ w1.d = disk

\* C34: sif_get_tile_slice, sif_set_tile_slice and sif_fill_tile_slice refuse
\* a tile coordinate outside the grid (tx < 0, ty < 0, tx >= n_tiles_across
\* or ty >= the number of tile rows) with SIF_ERROR_INVALID_TN and touch no
\* tile record, block-map entry or data block.
C34_TileCoordinatesChecked ==
  (Usable /\ ~CheckFileFails(file) /\ file.read_only = 0) =>
     \A c \in OutsideGrid(file), band \in 0..(file.hd.bands - 1) :
        /\ RejectedAsInvalidTile(
             SifGetTileSlice(World, Zeros(SliceBytes(file)), c[1], c[2], band).w)
        /\ RejectedAsInvalidTile(
             SifSetTileSlice(World, Zeros(SliceBytes(file)), c[1], c[2], band))
        /\ RejectedAsInvalidTile(
             SifFillTileSlice(World, c[1], c[2], band, Zeros(file.hd.data_unit_size)))

\* C35: sif_set_raster on a handle opened read-only is refused like the
\* other writes: it sets SIF_ERROR_INVALID_FILE_MODE and changes no tile
\* record, no entry of blocks_to_tiles and no byte of the file.
C35_SetRasterRefusedReadOnly ==
  (Usable /\ ~CheckFileFails(file) /\ file.read_only # 0) =>
     \A band \in 0..(file.hd.bands - 1), data \in RasterBuffers(file) :
        SifSetRaster(World, data, 0, 0, file.hd.width, file.hd.height, band)
          = SetErr(World, SIF_ERROR_INVALID_FILE_MODE)

\* C36: _sif_swap_bytes on a buffer of elements of 2, 4 or 8 bytes reverses
\* the bytes of each element and leaves each element in its place (byte
\* e * S + i of the result is byte e * S + (S - 1 - i) of the buffer), and a
\* second application gives the buffer back.
C36_SwapReversesElements ==
  last_op.name = "swap_bytes" =>
     /\ last_op.out.swapped = Reversed(last_op.out.buffer, last_op.out.elem_size)
     /\ SwapBytesFrom(last_op.out.swapped, 0, Len(last_op.out.swapped),
                      last_op.out.elem_size)
          = last_op.out.buffer

\* what the handle of world w holds for band b of tile c: the band's flag,
\* its stored uniform value and the slice sif_get_tile_slice returns
BandView(w, c, b) ==
  [flag |-> SIF_GET_BIT(w.f.tiles[TileNum(w.f, c)].uniform_flags, b),
   value |-> StoredValue(w.f, c, b),
   slice |-> SifGetTileSlice(w, Zeros(SliceBytes(w.f)), c[1], c[2], b).buf]

\* w1 is the world after a write to the band of the tiles in covered: every
\* other band of every tile, and the band in every other tile, is as before
OtherBandsUnchanged(w1, covered, band) ==
  ~w1.ub =>
     \A c \in ValidTileCoords(file), b \in 0..(file.hd.bands - 1) :
        (b # band \/ c \notin covered) => BandView(w1, c, b) = BandView(World, c, b)

\* C37: a write to band b of a tile by sif_set_tile_slice or
\* sif_fill_tile_slice, of every tile by sif_fill_tiles, or of the tiles of a
\* window by sif_set_raster changes neither the flag, nor the stored uniform
\* value, nor the slice read by sif_get_tile_slice of any other band of any
\* tile, nor of band b in a tile the write does not cover, whatever the
\* number of bands.
C37_BandIndependence ==
  (Usable /\ ~CheckFileFails(file) /\ file.read_only = 0 /\ ops < MaxOps) =>
     \A band \in 0..(file.hd.bands - 1) :
        /\ \A c \in ValidTileCoords(file) :
              /\ \A buffer \in SliceBuffers(file) :
                    OtherBandsUnchanged(
                      SifSetTileSlice(World, buffer, c[1], c[2], band), {c}, band)
              /\ \A value \in FillValues(file) :
                    OtherBandsUnchanged(
                      SifFillTileSlice(World, c[1], c[2], band, value), {c}, band)
        /\ \A value \in FillValues(file) :
              OtherBandsUnchanged(SifFillTiles(World, band, value),
                                  ValidTileCoords(file), band)
        /\ \A win \in ValidWindows(file) :
              \A data \in [1..(win[3] * win[4] * file.hd.data_unit_size) -> Bytes] :
                 OtherBandsUnchanged(
                   SifSetRaster(World, data, win[1], win[2], win[3], win[4], band),
                   CoveredTiles(file, win), band)

\* tile t holds a block that lies wholly inside the file
BlockInFile(t) ==
  /\ ~NoBlock(file.tiles[t]) /\ BlockIndexOk(file, file.tiles[t])
  /\ BlockLocation(file, file.tiles[t].block_num) + file.hd.tile_bytes
       <= Len(disk.tail)

\* _sif_get_tile of tile t reads nothing of the file beyond the tile's block,
\* stores nothing beyond the tile_bytes bytes of the buffer, returns a buffer
\* of tile_bytes bytes and sets no error
LoadedInsideBlock(t) ==
  LET got == GetTile(World, t)
  IN /\ ~got.w.ub
     /\ got.w.f.error = file.error
     /\ Len(got.buf) = file.hd.tile_bytes

\* C39: when the deep scan of consolidation loads a tile whose block is in
\* the file, _sif_get_tile reads only bytes of that block and stores only into
\* the first tile_bytes bytes of the scratch buffer, whatever the number of
\* bands, and sets no read error, also when the block is the last of the file.
C39_ScanStaysInsideBlock ==
  (Usable /\ ~CheckFileFails(file) /\ file.read_only = 0 /\ file.error = SIF_ERROR_NONE) =>
     \A t \in 0..(file.hd.n_tiles - 1) : BlockInFile(t) => LoadedInsideBlock(t)

\* the whole raster old of a band with the units of the window win replaced
\* by the units of data, row by row
RasterWithWindow(f, old, data, win) ==
  [k \in 1..Len(old) |->
     LET u == (k - 1) \div f.hd.data_unit_size
         px == u % f.hd.width
         py == u \div f.hd.width
     IN IF /\ px >= win[1] /\ px < win[1] + win[3]
           /\ py >= win[2] /\ py < win[2] + win[4]
          THEN data[((py - win[2]) * win[3] + (px - win[1])) * f.hd.data_unit_size
                     + ((k - 1) % f.hd.data_unit_size) + 1]
          ELSE old[k]]

\* w1 is the world after sif_set_raster of data to the window win of band:
\* sif_get_raster of the whole image gives the window's pixels as in data and
\* every other pixel of the band, and every pixel of the other bands, as before
WindowWritten(w1, data, win, band) ==
  /\ ~w1.ub
  /\ \A b \in 0..(file.hd.bands - 1) :
        WholeRaster(w1, b) =
           IF b = band
             THEN RasterWithWindow(file, WholeRaster(World, b), data, win)
             ELSE WholeRaster(World, b)

\* C40: sif_set_raster of a buffer to a window of band b changes the pixels
\* of the window in band b and no others: read back by sif_get_raster, every
\* pixel inside the window has the value given in the buffer and every pixel
\* of the image outside it, in the partly covered tiles too, the value it had.
C40_WindowWriteFrame ==
  (Usable /\ ~CheckFileFails(file) /\ file.read_only = 0 /\ ops < MaxOps) =>
     \A band \in 0..(file.hd.bands - 1), win \in ValidWindows(file) :
        \A data \in [1..(win[3] * win[4] * file.hd.data_unit_size) -> Bytes] :
           WindowWritten(
             SifSetRaster(World, data, win[1], win[2], win[3], win[4], band),
             data, win, band)

\* the units inside the image of the slice sif_get_tile_slice returns for
\* band b of tile c in world w
ImageUnits(w, c, b) ==
  LET got == SifGetTileSlice(w, Zeros(SliceBytes(w.f)), c[1], c[2], b).buf
  IN [j \in UnitsInImage(w.f, c) |-> UnitAt(got, j, w.f.hd.data_unit_size)]

\* w1 is the world after sif_flush: no error is set, and every tile and band
\* reads as before at the positions inside the image
ImagePreserved(w1) ==
  /\ ~w1.ub
  /\ w1.f.error = SIF_ERROR_NONE
  /\ \A c \in ValidTileCoords(file), b \in 0..(file.hd.bands - 1) :
        ImageUnits(w1, c, b) = ImageUnits(World, c, b)

\* C38: on a read-write handle without error, whatever its consolidate and
\* defragment flags, sif_flush sets no error and every tile and band reads
\* through sif_get_tile_slice, at the positions inside the image, the same
\* after the flush as before it.
C38_FlushPreservesImage ==
  (Usable /\ ~CheckFileFails(file) /\ file.read_only = 0
     /\ file.error = SIF_ERROR_NONE) =>
        ImagePreserved(SifFlush(World))

====
